---- MODULE Spec2Model ----
(***************************************************************************)
(* Dinari Wallet.  The storage library (src/lib/storage.js), the popup     *)
(* script and the background service worker (both in                       *)
(* src/background/service-worker.js) as a state machine over the one       *)
(* shared chrome.storage.local area.                                       *)
(*                                                                         *)
(* Granularity.  Every chrome.storage.local call is one atomic step: the   *)
(* step is the synchronous code that runs when the previous await          *)
(* resolves, up to and including the effect of the next storage call.      *)
(* What a call returned is kept in a local of the handler and used by the  *)
(* handler's next step, so other handlers and the background interleave    *)
(* between a read and the write that depends on it.                        *)
(*                                                                         *)
(* The popup runs one form or button handler at a time (ui), beside the    *)
(* debounced activity callback (touch) and the 10-second session poll      *)
(* (poll).  The background runs the autoLockCheck alarm (auto) and the     *)
(* LOCK_WALLET message handler.                                            *)
(***************************************************************************)
EXTENDS Integers, Sequences, FiniteSets, TLC

\* ------------------------------------------------------------------ bounds
MaxTicks == 1

\* ------------------------------------------------------------------ inputs
Passwords == {"pw1", "pw2"}
PrivateKeys == {"k1"}
RandomSalts == {"salt1"}
RandomIVs == {"iv1"}
\* clock advances considered, in milliseconds
TickSteps == {300000}

\* ------------------------------------------------------- storage.js values
Absent == [absent |-> TRUE]
Null == [null |-> TRUE]

DEFAULT_RPC == "https://rpctiger-testnet.dinariblockchain.network:8545"
CUSTOM_RPC == "https://custom-node:8545"
RpcInputs == {CUSTOM_RPC}
DEFAULT_SETTINGS == [rpc_endpoint |-> DEFAULT_RPC, auto_lock_minutes |-> 5]

LOCKED_DEFAULT == [unlocked |-> FALSE, last_activity |-> 0]

\* chrome.storage.local: get / set / remove on the three records
StorageSet(st, key, value) == [st EXCEPT ![key] = value]
StorageRemove(st, keys) == [k \in DOMAIN st |-> IF k \in keys THEN Absent ELSE st[k]]

\* ----------------------------------------------------------------- crypto
\* PBKDF2 is a function of (password, salt) and nothing else.
deriveKey(password, salt) == <<password, salt>>

\* encrypt that returns another salt than the one the key was derived from
encrypt_saltLost(plaintext, password, salt, iv) ==
    [encrypted |-> [key |-> deriveKey(password, salt), iv |-> iv, pt |-> plaintext],
     salt |-> salt \o "'", iv |-> iv]

\* AES-GCM under the derived key: the ciphertext opens, with its tag
\* verified, only under the same key and iv.
encrypt(plaintext, password, salt, iv) ==
    [encrypted |-> [key |-> deriveKey(password, salt), iv |-> iv, pt |-> plaintext],
     salt |-> salt, iv |-> iv]

DecryptionFailed == [ok |-> FALSE, error |-> "Decryption failed - incorrect password or corrupted data"]

\* what reaches decrypt from storage may not be what encrypt produced: a
\* string that is not Base64, or a ciphertext that differs from the one
\* produced in at least one bit
MalformedBase64 == "not base64"
MalformedCiphertext == [malformed |-> TRUE]
flipBit(encrypted) == [altered |-> encrypted]

\* the body of decrypt's try block: atob throws on a string that is not
\* Base64, crypto.subtle.decrypt throws when the tag does not verify
decryptAttempt(encrypted, salt, iv, password) ==
    IF salt = MalformedBase64 \/ iv = MalformedBase64 \/ encrypted = MalformedCiphertext
    THEN [ok |-> FALSE, cause |-> "InvalidCharacterError"]
    ELSE IF DOMAIN encrypted # {"key", "iv", "pt"}
         THEN [ok |-> FALSE, cause |-> "OperationError"]
         ELSE IF encrypted.key = deriveKey(password, salt) /\ encrypted.iv = iv
              THEN [ok |-> TRUE, pt |-> encrypted.pt]
              ELSE [ok |-> FALSE, cause |-> "OperationError"]

\* decrypt whose error tells the causes apart
decrypt_leaky(encrypted, salt, iv, password) ==
    LET r == decryptAttempt(encrypted, salt, iv, password)
    IN IF r.ok THEN r ELSE [ok |-> FALSE, error |-> "Decryption failed: " \o r.cause]

\* decrypt: the catch replaces whatever was thrown by the one error
decrypt(encrypted, salt, iv, password) ==
    LET r == decryptAttempt(encrypted, salt, iv, password)
    IN IF r.ok THEN r ELSE DecryptionFailed

\* crypto.js: key pair and address are functions of the private key
getPublicKeyFromPrivate(k) == <<"pub", k>>
publicKeyToAddress(pub) == <<"addr", pub>>
importWallet(k) ==
    [privateKey |-> k,
     publicKey |-> getPublicKeyFromPrivate(k),
     address |-> publicKeyToAddress(getPublicKeyFromPrivate(k))]

\* JSON.stringify of the object hashTransaction builds: the fields in the
\* order written, a field whose value is undefined left out.  fee is
\* tx.fee || tx.feeDNT: feeDNT when fee is missing or 0.
txData(tx) ==
    LET has(n) == n \in DOMAIN tx
        feeFromFee == has("fee") /\ tx["fee"] # 0
        pair(n) == IF has(n) THEN << <<n, tx[n]>> >> ELSE << >>
        feePair == IF feeFromFee
                   THEN << <<"fee", tx["fee"]>> >>
                   ELSE IF has("feeDNT") THEN << <<"fee", tx["feeDNT"]>> >> ELSE << >>
    IN pair("from") \o pair("to") \o pair("amount") \o pair("tokenType")
         \o feePair \o pair("nonce")

\* SHA-256 is a function of the bytes, without collisions
sha256Sync(data) == <<"sha256", data>>
hashTransaction(tx) == sha256Sync(txData(tx))
signMessage(messageHash, privateKey) == <<"sig", messageHash, privateKey>>

\* signTransaction: {...tx, signature, publicKey}
signTransaction(tx, privateKey) ==
    LET signature == signMessage(hashTransaction(tx), privateKey)
        publicKey == getPublicKeyFromPrivate(privateKey)
    IN [n \in DOMAIN tx \cup {"signature", "publicKey"} |->
           IF n = "signature" THEN signature
           ELSE IF n = "publicKey" THEN publicKey
           ELSE tx[n]]

\* rpc.js: the ledger's answer to wallet_balance, and the form's values
Nonces == {0, 3}
Recipients == {"Drecipient"}
Amounts == {100000000}
TokenTypes == {"DNT"}
Fees == {1000}

\* the contexts that call buildAndSendTransaction for the one sender
CallIds == {1, 2}

\* buildAndSendTransaction that numbers the transaction one past the ledger
buildTransaction_nextNonce(from, to, amount, tokenType, feeDNT, nonce) ==
    [from |-> from, to |-> to, amount |-> amount, tokenType |-> tokenType,
     feeDNT |-> feeDNT, nonce |-> nonce + 1]

\* buildAndSendTransaction: the transaction it builds from the nonce returned
buildTransaction(from, to, amount, tokenType, feeDNT, nonce) ==
    [from |-> from, to |-> to, amount |-> amount, tokenType |-> tokenType,
     feeDNT |-> feeDNT, nonce |-> nonce]

\* generateMnemonic draws the words; mnemonicToPrivateKey is the hex of the
\* SHA-256 of the phrase, a function of the phrase and nothing else
Mnemonics == {"m1"}
mnemonicToPrivateKey(mnemonic) == "sha256(" \o mnemonic \o ")"

\* --------------------------------------------------- storage.js functions
\* saveWallet that also stores the key beside the ciphertext
walletRecord_cleartext(walletData, password, salt, iv) ==
    [encrypted_data |-> encrypt([privateKey |-> walletData.privateKey,
                                 seedPhrase |-> walletData.seedPhrase],
                                password, salt, iv).encrypted,
     salt |-> salt,
     iv |-> iv,
     address |-> walletData.address,
     public_key |-> walletData.publicKey,
     privateKey |-> walletData.privateKey]

\* saveWallet, up to its first storage call: the record it stores
walletRecord(walletData, password, salt, iv) ==
    LET sensitiveData == [privateKey |-> walletData.privateKey,
                          seedPhrase |-> walletData.seedPhrase]
        encryptedData == encrypt(sensitiveData, password, salt, iv)
    IN [encrypted_data |-> encryptedData.encrypted,
        salt |-> encryptedData.salt,
        iv |-> encryptedData.iv,
        address |-> walletData.address,
        public_key |-> walletData.publicKey]

\* loadWallet that returns the secret without the tag check of decrypt
loadWallet_unchecked(walletData, password) ==
    IF walletData = Absent
    THEN [ok |-> FALSE, error |-> "Failed to load wallet: No wallet found"]
    ELSE [ok |-> TRUE,
          wallet |-> [privateKey |-> walletData.encrypted_data.pt.privateKey,
                      seedPhrase |-> walletData.encrypted_data.pt.seedPhrase,
                      address |-> walletData.address,
                      publicKey |-> walletData.public_key]]

\* loadWallet on the record a get returned
loadWallet(walletData, password) ==
    IF walletData = Absent
    THEN [ok |-> FALSE, error |-> "Failed to load wallet: No wallet found"]
    ELSE LET d == decrypt(walletData.encrypted_data, walletData.salt, walletData.iv, password)
         IN IF d.ok
            THEN [ok |-> TRUE,
                  wallet |-> [privateKey |-> d.pt.privateKey,
                              seedPhrase |-> d.pt.seedPhrase,
                              address |-> walletData.address,
                              publicKey |-> walletData.public_key]]
            ELSE [ok |-> FALSE, error |-> "Failed to load wallet: " \o d.error]

\* verifyPassword that does not wait for the outcome of decrypt
verifyPassword_unverified(walletData, password) ==
    IF walletData = Absent
    THEN FALSE
    ELSE walletData.encrypted_data # MalformedCiphertext

\* verifyPassword that only looks for the record
verifyPassword_anyPassword(walletData, password) == walletData # Absent

\* verifyPassword on the record a get returned
verifyPassword(walletData, password) ==
    IF walletData = Absent
    THEN FALSE
    ELSE decrypt(walletData.encrypted_data, walletData.salt, walletData.iv, password).ok

walletExists(st) == st.dinari_wallet # Absent
getWalletAddress(st) ==
    IF st.dinari_wallet # Absent THEN [address |-> st.dinari_wallet.address] ELSE Null
getWalletPublicKey(st) ==
    IF st.dinari_wallet # Absent THEN [public_key |-> st.dinari_wallet.public_key] ELSE Null

getSettings(st) == IF st.dinari_settings # Absent THEN st.dinari_settings ELSE DEFAULT_SETTINGS
getSession(st) == IF st.dinari_session # Absent THEN st.dinari_session ELSE LOCKED_DEFAULT

\* setSession that does not stamp the record
sessionData_noStamp(unlocked, t) == [unlocked |-> unlocked, last_activity |-> 0]

\* setSession: the record it writes at time t
sessionData(unlocked, t) == [unlocked |-> unlocked, last_activity |-> t]
setSession(st, unlocked, t) == StorageSet(st, "dinari_session", sessionData(unlocked, t))

\* isSessionValid with the comparison off by one
isSessionValid_inclusive(session, settings, t) ==
    IF ~session.unlocked
    THEN FALSE
    ELSE t - session.last_activity <= settings.auto_lock_minutes * 60 * 1000

\* isSessionValid, after its reads: session and settings as read, t = Date.now()
isSessionValid(session, settings, t) ==
    IF ~session.unlocked
    THEN FALSE
    ELSE LET autoLockMs == settings.auto_lock_minutes * 60 * 1000
             timeSinceActivity == t - session.last_activity
         IN timeSinceActivity < autoLockMs

\* updateActivity that resets the stamp instead of setting it
touchedSession_reset(session, t) == [session EXCEPT !.last_activity = 0]

\* updateActivity, after its read: the record it writes at time t
touchedSession(session, t) == [session EXCEPT !.last_activity = t]

\* clearWallet that leaves the session record behind
clearWallet_walletOnly(st) == StorageRemove(st, {"dinari_wallet"})

\* clearWallet: one remove of both keys
clearWallet(st) == StorageRemove(st, {"dinari_wallet", "dinari_session"})

\* saveSettings: merge over what getSettings returned
saveSettings(st, current, partial) ==
    StorageSet(st, "dinari_settings",
               [k \in DOMAIN current \cup DOMAIN partial |->
                   IF k \in DOMAIN partial THEN partial[k] ELSE current[k]])

\* background: the record handleLockWallet and checkAutoLock write
BG_LOCKED == [unlocked |-> FALSE, last_activity |-> 0]

\* checkAutoLock that lets the session live through the threshold itself
autoLockDue_late(session, settings, t) ==
    IF session = Absent
    THEN FALSE
    ELSE IF ~session.unlocked
         THEN FALSE
         ELSE t - session.last_activity > settings.auto_lock_minutes * 60 * 1000

\* checkAutoLock, after its read: whether it locks at time t
autoLockDue(session, settings, t) ==
    IF session = Absent
    THEN FALSE
    ELSE IF ~session.unlocked
         THEN FALSE
         ELSE LET autoLockMs == settings.auto_lock_minutes * 60 * 1000
                  timeSinceActivity == t - session.last_activity
              IN timeSinceActivity >= autoLockMs

\* What a handler keeps of a record it read is what its later steps read of it:
\* updateActivity overwrites last_activity before any use; isSessionValid and
\* checkAutoLock return before reading last_activity when the session is not
\* unlocked, and read only auto_lock_minutes of the settings.
unlockedOnly(session) == [session EXCEPT !.last_activity = 0]
sessionAsRead(session) == IF session.unlocked THEN session ELSE unlockedOnly(session)
autoLockMinutesOnly(settings) == [auto_lock_minutes |-> settings.auto_lock_minutes]

\* ------------------------------------------------------------------ state
VARIABLES
    store,              \* chrome.storage.local: dinari_wallet, dinari_session, dinari_settings
    now,                \* Date.now()
    ticks,              \* clock advances so far
    popupOpen,          \* the popup document exists
    currentScreen,      \* popup global
    currentWallet,      \* popup global
    pendingTransaction, \* popup global
    privateKeyDisplay,  \* textContent of #privateKeyDisplay
    loginError,         \* text of #loginError, "" when hidden
    tracking,           \* setupActivityTracking has run in this popup
    tempPassword,       \* sessionStorage item tempPassword, [value |-> the password]
    seedPhraseWords,    \* popup global
    verifyIndices,      \* popup global
    uiPc, uiPassword, uiVal, uiVal2,   \* the running form/button handler and its locals
    touchPc, touchSession,            \* the debounced updateActivity call
    timeout,            \* debounce: the pending timer, [at |-> the time it is due]
    activeSince,        \* [t |-> time of the first event of the burst the timer waits on]
    pollPc, pollSession, pollSettings,   \* the setInterval session check
    autoPc, autoRead,                 \* checkAutoLock in the background
    calls,              \* buildAndSendTransaction calls of this sender, by caller
    broadcasts,         \* signed transactions handed to tx_send, in order
    ledger              \* the node: the account's nonce, the next broadcast it processes

storageVars == <<store>>
clockVars == <<now, ticks>>
createVars == <<tempPassword, seedPhraseWords, verifyIndices>>
popupVars == <<popupOpen, currentScreen, currentWallet, pendingTransaction,
               privateKeyDisplay, loginError, tracking, createVars>>
uiVars == <<uiPc, uiPassword, uiVal, uiVal2>>
touchVars == <<touchPc, touchSession, timeout, activeSince>>
pollVars == <<pollPc, pollSession, pollSettings>>
autoVars == <<autoPc, autoRead>>
rpcVars == <<calls, broadcasts, ledger>>
vars == <<store, now, ticks, popupOpen, currentScreen,
          currentWallet, pendingTransaction, privateKeyDisplay, loginError, tracking,
          tempPassword, seedPhraseWords, verifyIndices,
          uiPc, uiPassword, uiVal, uiVal2, touchPc, touchSession, timeout, activeSince,
          pollPc, pollSession, pollSettings, autoPc, autoRead,
          calls, broadcasts, ledger>>

\* no call of buildAndSendTransaction has been made; the account is new
IdleCall == [pc |-> "idle", args |-> Null, signedTx |-> Null, result |-> Null]
NoCalls ==
    /\ calls = [c \in CallIds |-> IdleCall]
    /\ broadcasts = << >>
    /\ ledger = [nonce |-> 0, next |-> 1]

EmptyStore == [dinari_wallet |-> Absent, dinari_session |-> Absent, dinari_settings |-> Absent]

\* the popup's script state when the document is not loaded / just loaded
PopupFresh ==
    /\ currentScreen = "none"
    /\ currentWallet = Null
    /\ pendingTransaction = Null
    /\ privateKeyDisplay = ""
    /\ loginError = ""
    /\ tracking = FALSE
    /\ tempPassword = Null /\ seedPhraseWords = << >> /\ verifyIndices = << >>
    /\ NoCalls
    /\ uiPc = "idle" /\ uiPassword = "" /\ uiVal = Null /\ uiVal2 = Null
    /\ touchPc = "idle" /\ touchSession = Null
    /\ timeout = Null /\ activeSince = Null
    /\ pollPc = "idle" /\ pollSession = Null /\ pollSettings = Null

\* freshly installed extension, popup not opened yet
Init ==
    /\ store = EmptyStore
    /\ now = 1
    /\ ticks = 0
    /\ popupOpen = FALSE
    /\ PopupFresh
    /\ autoPc = "idle" /\ autoRead = Null

Tick ==
    /\ ticks < MaxTicks
    /\ \E d \in TickSteps : now' = now + d
    /\ ticks' = ticks + 1
    /\ UNCHANGED <<store, popupVars, uiVars, touchVars, pollVars, autoVars, rpcVars>>

\* ------------------------------------------------------------- background
\* LOCK_WALLET message: one set
handleLockWallet ==
    /\ store' = StorageSet(store, "dinari_session", BG_LOCKED)
    /\ UNCHANGED <<clockVars, popupVars, uiVars, touchVars, pollVars, autoVars, rpcVars>>

\* autoLockCheck alarm: one get of session and settings ...
checkAutoLock_get ==
    /\ autoPc = "idle"
    /\ autoRead' = [session |-> IF store.dinari_session # Absent
                                THEN sessionAsRead(store.dinari_session) ELSE Absent,
                    settings |-> IF store.dinari_settings # Absent
                                 THEN autoLockMinutesOnly(store.dinari_settings) ELSE Absent]
    /\ autoPc' = "read"
    /\ UNCHANGED <<storageVars, clockVars, popupVars, uiVars, touchVars, pollVars, rpcVars>>

\* ... then the decision on what was read, and the set
checkAutoLock_lock ==
    /\ autoPc = "read"
    /\ LET session == autoRead.session
           settings == IF autoRead.settings # Absent THEN autoRead.settings
                       ELSE [auto_lock_minutes |-> 5]
       IN IF autoLockDue(session, settings, now)
          THEN /\ store' = StorageSet(store, "dinari_session", BG_LOCKED)
          ELSE UNCHANGED storageVars
    /\ autoPc' = "idle"
    /\ autoRead' = Null
    /\ UNCHANGED <<clockVars, popupVars, uiVars, touchVars, pollVars, rpcVars>>

\* ------------------------------------------------- popup: activity tracking
\* the debounced listener fires: DinariStorage.updateActivity reads the session ...
updateActivity_get ==
    /\ popupOpen /\ tracking
    /\ touchPc = "idle"
    /\ touchSession' = unlockedOnly(getSession(store))
    /\ touchPc' = "read"
    /\ UNCHANGED <<timeout, activeSince>>
    /\ UNCHANGED <<storageVars, clockVars, popupVars, uiVars, pollVars, autoVars, rpcVars>>

\* ... and writes it back with a new last_activity when it read unlocked
updateActivity_set ==
    /\ touchPc = "read"
    /\ IF touchSession.unlocked
       THEN /\ store' = StorageSet(store, "dinari_session", touchedSession(touchSession, now))
       ELSE UNCHANGED storageVars
    /\ touchPc' = "idle"
    /\ touchSession' = Null
    /\ UNCHANGED <<timeout, activeSince>>
    /\ UNCHANGED <<clockVars, popupVars, uiVars, pollVars, autoVars, rpcVars>>

\* the interval callback once isSessionValid has resolved to valid:
\* it goes on to lockWallet() exactly when the session is not valid and the
\* login screen is not shown
pollResolved(valid) ==
    /\ pollPc' = IF ~valid /\ currentScreen # "loginScreen" THEN "lock" ELSE "idle"
    /\ pollSession' = Null
    /\ pollSettings' = Null

\* setInterval callback: isSessionValid reads the session ...
poll_getSession ==
    /\ popupOpen /\ tracking
    /\ pollPc = "idle"
    /\ pollSession' = sessionAsRead(getSession(store))
    /\ pollPc' = "session"
    /\ UNCHANGED pollSettings
    /\ UNCHANGED <<storageVars, clockVars, popupVars, uiVars, touchVars, autoVars, rpcVars>>

\* ... returns false when it is not unlocked, else reads the settings ...
poll_getSettings ==
    /\ pollPc = "session"
    /\ IF ~pollSession.unlocked
       THEN pollResolved(isSessionValid(pollSession, Null, now))
       ELSE /\ pollSettings' = autoLockMinutesOnly(getSettings(store))
            /\ pollPc' = "settings"
            /\ UNCHANGED pollSession
    /\ UNCHANGED <<storageVars, clockVars, popupVars, uiVars, touchVars, autoVars, rpcVars>>

\* ... and compares the elapsed time
poll_compare ==
    /\ pollPc = "settings"
    /\ pollResolved(isSessionValid(pollSession, pollSettings, now))
    /\ UNCHANGED <<storageVars, clockVars, popupVars, uiVars, touchVars, autoVars, rpcVars>>

\* lockWallet() of the popup, called by the poll: DinariStorage.lockWallet ...
poll_lock ==
    /\ pollPc = "lock"
    /\ store' = setSession(store, FALSE, now)
    /\ pollPc' = "locked"
    /\ UNCHANGED <<pollSession, pollSettings>>
    /\ UNCHANGED <<clockVars, popupVars, uiVars, touchVars, autoVars, rpcVars>>

\* ... then the popup's own state
poll_locked ==
    /\ pollPc = "locked"
    /\ currentWallet' = Null
    /\ currentScreen' = "loginScreen"
    /\ pollPc' = "idle"
    /\ UNCHANGED <<pollSession, pollSettings>>
    /\ UNCHANGED <<popupOpen, pendingTransaction, privateKeyDisplay, loginError, tracking, createVars>>
    /\ UNCHANGED <<storageVars, clockVars, uiVars, touchVars, autoVars, rpcVars>>

\* ------------------------------------------------------ popup: lifecycle
otherVars == <<clockVars, touchVars, pollVars, autoVars, rpcVars>>

\* DOMContentLoaded: DinariStorage.walletExists reads the wallet ...
popupOpen_start ==
    /\ ~popupOpen
    /\ popupOpen' = TRUE
    /\ uiVal' = [exists |-> walletExists(store)]
    /\ uiPc' = "open_exists"
    /\ UNCHANGED <<uiPassword, uiVal2>>
    /\ UNCHANGED <<currentScreen, currentWallet, pendingTransaction, privateKeyDisplay,
                   loginError, tracking, createVars>>
    /\ UNCHANGED <<storageVars, otherVars>>

\* ... no wallet: welcome screen; else isSessionValid reads the session ...
popupOpen_exists ==
    /\ uiPc = "open_exists"
    /\ IF ~uiVal.exists
       THEN /\ currentScreen' = "welcomeScreen"
            /\ uiPc' = "idle"
            /\ uiVal' = Null
       ELSE /\ uiVal' = sessionAsRead(getSession(store))
            /\ uiPc' = "open_session"
            /\ UNCHANGED currentScreen
    /\ UNCHANGED <<uiPassword, uiVal2>>
    /\ UNCHANGED <<popupOpen, currentWallet, pendingTransaction, privateKeyDisplay,
                   loginError, tracking, createVars>>
    /\ UNCHANGED <<storageVars, otherVars>>

\* the handler once isSessionValid has resolved to valid:
\* initializeWallet reads the address, or the login screen is shown
popupOpen_resolved(valid) ==
    IF valid
    THEN /\ uiVal' = getWalletAddress(store)
         /\ uiPc' = "init_addr"
         /\ UNCHANGED currentScreen
    ELSE /\ currentScreen' = "loginScreen"
         /\ uiPc' = "idle"
         /\ uiVal' = Null

\* ... isSessionValid returns false when it is not unlocked, else reads the settings ...
popupOpen_session ==
    /\ uiPc = "open_session"
    /\ IF ~uiVal.unlocked
       THEN /\ popupOpen_resolved(isSessionValid(uiVal, Null, now))
            /\ UNCHANGED uiVal2
       ELSE /\ uiVal2' = autoLockMinutesOnly(getSettings(store))
            /\ uiPc' = "open_settings"
            /\ UNCHANGED <<currentScreen, uiVal>>
    /\ UNCHANGED uiPassword
    /\ UNCHANGED <<popupOpen, currentWallet, pendingTransaction, privateKeyDisplay,
                   loginError, tracking, createVars>>
    /\ UNCHANGED <<storageVars, otherVars>>

\* ... and compares the elapsed time
popupOpen_valid ==
    /\ uiPc = "open_settings"
    /\ popupOpen_resolved(isSessionValid(uiVal, uiVal2, now))
    /\ uiVal2' = Null
    /\ UNCHANGED uiPassword
    /\ UNCHANGED <<popupOpen, currentWallet, pendingTransaction, privateKeyDisplay,
                   loginError, tracking, createVars>>
    /\ UNCHANGED <<storageVars, otherVars>>

\* initializeWallet with the address read: main screen, or back to login
initializeWallet_show ==
    /\ uiPc = "init_addr"
    /\ IF uiVal # Null
       THEN /\ currentScreen' = "mainWalletScreen"
            /\ uiPc' = "init_refresh"
       ELSE /\ currentScreen' = "loginScreen"
            /\ uiPc' = "idle"
    /\ uiVal' = Null
    /\ UNCHANGED <<uiPassword, uiVal2>>
    /\ UNCHANGED <<popupOpen, currentWallet, pendingTransaction, privateKeyDisplay,
                   loginError, tracking, createVars>>
    /\ UNCHANGED <<storageVars, otherVars>>

\* initializeWallet after refreshWalletData: setupActivityTracking
initializeWallet_track ==
    /\ uiPc = "init_refresh"
    /\ tracking' = TRUE
    /\ UNCHANGED createVars
    /\ uiPc' = "idle"
    /\ UNCHANGED <<uiPassword, uiVal, uiVal2>>
    /\ UNCHANGED <<popupOpen, currentScreen, currentWallet, pendingTransaction,
                   privateKeyDisplay, loginError>>
    /\ UNCHANGED <<storageVars, otherVars>>

\* the popup window closes: its document and script state are gone
popupClose ==
    /\ popupOpen
    /\ popupOpen' = FALSE
    /\ currentScreen' = "none"
    /\ currentWallet' = Null
    /\ pendingTransaction' = Null
    /\ privateKeyDisplay' = ""
    /\ loginError' = ""
    /\ tracking' = FALSE
    /\ tempPassword' = Null /\ seedPhraseWords' = << >> /\ verifyIndices' = << >>
    /\ uiPc' = "idle" /\ uiPassword' = "" /\ uiVal' = Null /\ uiVal2' = Null
    /\ touchPc' = "idle" /\ touchSession' = Null
    /\ timeout' = Null /\ activeSince' = Null
    /\ pollPc' = "idle" /\ pollSession' = Null /\ pollSettings' = Null
    /\ UNCHANGED <<storageVars, clockVars, autoVars, rpcVars>>

\* buttons that only change the screen
NavTable ==
    {<<"welcomeScreen", "importWalletScreen">>,
     <<"importWalletScreen", "welcomeScreen">>,
     <<"mainWalletScreen", "settingsScreen">>,
     <<"settingsScreen", "mainWalletScreen">>,
     <<"mainWalletScreen", "sendScreen">>,
     <<"sendScreen", "mainWalletScreen">>,
     <<"settingsScreen", "exportKeyPasswordScreen">>,
     <<"exportKeyPasswordScreen", "settingsScreen">>}

showScreen_button ==
    /\ popupOpen /\ uiPc = "idle"
    /\ \E nav \in NavTable :
          /\ currentScreen = nav[1]
          /\ currentScreen' = nav[2]
    /\ UNCHANGED <<popupOpen, currentWallet, pendingTransaction, privateKeyDisplay,
                   loginError, tracking, createVars>>
    /\ UNCHANGED <<storageVars, uiVars, otherVars>>

\* ---------------------------------------------------------- popup: login
\* loginForm submit: verifyPassword reads the wallet ...
loginForm_submit ==
    /\ popupOpen /\ uiPc = "idle" /\ currentScreen = "loginScreen"
    /\ \E password \in Passwords : uiPassword' = password
    /\ uiVal' = store.dinari_wallet
    /\ uiPc' = "login_verify"
    /\ UNCHANGED uiVal2
    /\ UNCHANGED <<popupVars, storageVars, otherVars>>

\* ... wrong password: error and return; else loadWallet reads the wallet ...
loginForm_verified ==
    /\ uiPc = "login_verify"
    /\ IF ~verifyPassword(uiVal, uiPassword)
       THEN /\ loginError' = "Incorrect password"
            /\ uiPc' = "idle"
            /\ uiVal' = Null
            /\ uiPassword' = ""
       ELSE /\ loginError' = ""
            /\ uiVal' = store.dinari_wallet
            /\ uiPc' = "login_load"
            /\ UNCHANGED uiPassword
    /\ UNCHANGED uiVal2
    /\ UNCHANGED <<popupOpen, currentScreen, currentWallet, pendingTransaction,
                   privateKeyDisplay, tracking, createVars>>
    /\ UNCHANGED <<storageVars, otherVars>>

\* ... currentWallet = wallet; setSession(true) ...
loginForm_loaded ==
    /\ uiPc = "login_load"
    /\ LET r == loadWallet(uiVal, uiPassword)
       IN IF r.ok
          THEN /\ currentWallet' = r.wallet
               /\ store' = setSession(store, TRUE, now)
               /\ uiPc' = "login_session"
               /\ UNCHANGED loginError
          ELSE /\ loginError' = "Failed to unlock wallet"
               /\ uiPc' = "idle"
               /\ UNCHANGED <<currentWallet, store>>
    /\ uiVal' = Null
    /\ uiPassword' = ""
    /\ UNCHANGED uiVal2
    /\ UNCHANGED <<popupOpen, currentScreen, pendingTransaction, privateKeyDisplay,
                   tracking, createVars>>
    /\ UNCHANGED otherVars

\* ... initializeWallet reads the address
loginForm_initialize ==
    /\ uiPc = "login_session"
    /\ uiVal' = getWalletAddress(store)
    /\ uiPc' = "init_addr"
    /\ UNCHANGED <<uiPassword, uiVal2>>
    /\ UNCHANGED <<popupVars, storageVars, otherVars>>

\* --------------------------------------------------------- popup: import
KeyInputs == PrivateKeys \cup {"not-hex"}
validateHex(hex) == hex \in PrivateKeys

\* importWalletForm submit: the form is rejected, or importWallet derives the
\* wallet and saveWallet starts encrypting ...
importWalletForm_submit ==
    /\ popupOpen /\ uiPc = "idle" /\ currentScreen = "importWalletScreen"
    /\ \E privateKey \in KeyInputs, password \in Passwords :
          /\ validateHex(privateKey)
          /\ LET wallet == importWallet(privateKey)
             IN uiVal' = [privateKey |-> wallet.privateKey,
                          publicKey |-> wallet.publicKey,
                          address |-> wallet.address,
                          seedPhrase |-> Null]
          /\ uiPassword' = password
    /\ uiPc' = "save_encrypt"
    /\ UNCHANGED uiVal2
    /\ UNCHANGED <<popupVars, storageVars, otherVars>>

\* ... encrypt fails and saveWallet throws, or the wallet record is set ...
saveWallet_encrypted ==
    /\ uiPc = "save_encrypt"
    /\ \E salt \in RandomSalts, iv \in RandomIVs, encryptOk \in BOOLEAN :
          IF encryptOk
          THEN /\ store' = StorageSet(store, "dinari_wallet",
                                      walletRecord(uiVal, uiPassword, salt, iv))
               /\ uiPc' = "save_session"
          ELSE /\ uiPc' = "idle"
               /\ UNCHANGED store
    /\ uiVal' = Null
    /\ uiPassword' = ""
    /\ UNCHANGED uiVal2
    /\ UNCHANGED <<popupVars, otherVars>>

\* ... then setSession(true) ...
saveWallet_session ==
    /\ uiPc = "save_session"
    /\ store' = setSession(store, TRUE, now)
    /\ uiPc' = "save_done"
    /\ UNCHANGED <<uiPassword, uiVal, uiVal2>>
    /\ UNCHANGED <<popupVars, otherVars>>

\* ... and back in the handler: initializeWallet reads the address
importWalletForm_initialize ==
    /\ uiPc = "save_done"
    /\ uiVal' = getWalletAddress(store)
    /\ uiPc' = "init_addr"
    /\ UNCHANGED <<uiPassword, uiVal2>>
    /\ UNCHANGED <<popupOpen, currentScreen, currentWallet, pendingTransaction,
                   privateKeyDisplay, loginError, tracking, createVars>>
    /\ UNCHANGED <<storageVars, otherVars>>

\* ------------------------------------------------------- popup: settings
\* btnLockWallet: lockWallet() of the popup: DinariStorage.lockWallet ...
btnLockWallet_click ==
    /\ popupOpen /\ uiPc = "idle" /\ currentScreen = "settingsScreen"
    /\ store' = setSession(store, FALSE, now)
    /\ uiPc' = "lock_done"
    /\ UNCHANGED <<uiPassword, uiVal, uiVal2>>
    /\ UNCHANGED <<popupVars, otherVars>>

\* ... then the popup's own state
lockWallet_done ==
    /\ uiPc = "lock_done"
    /\ currentWallet' = Null
    /\ currentScreen' = "loginScreen"
    /\ uiPc' = "idle"
    /\ UNCHANGED <<uiPassword, uiVal, uiVal2>>
    /\ UNCHANGED <<popupOpen, pendingTransaction, privateKeyDisplay, loginError, tracking, createVars>>
    /\ UNCHANGED <<storageVars, otherVars>>

\* btnClearWallet, both confirmations given: DinariStorage.clearWallet ...
btnClearWallet_click ==
    /\ popupOpen /\ uiPc = "idle" /\ currentScreen = "settingsScreen"
    /\ store' = clearWallet(store)
    /\ uiPc' = "clear_done"
    /\ UNCHANGED <<uiPassword, uiVal, uiVal2>>
    /\ UNCHANGED <<popupVars, otherVars>>

\* ... then the popup's own state
btnClearWallet_done ==
    /\ uiPc = "clear_done"
    /\ currentWallet' = Null
    /\ currentScreen' = "welcomeScreen"
    /\ uiPc' = "idle"
    /\ UNCHANGED <<uiPassword, uiVal, uiVal2>>
    /\ UNCHANGED <<popupOpen, pendingTransaction, privateKeyDisplay, loginError, tracking, createVars>>
    /\ UNCHANGED <<storageVars, otherVars>>

\* btnSaveRPC: saveSettings reads the current settings ...
btnSaveRPC_click ==
    /\ popupOpen /\ uiPc = "idle" /\ currentScreen = "settingsScreen"
    /\ \E endpoint \in RpcInputs : uiVal2' = [rpc_endpoint |-> endpoint]
    /\ uiVal' = getSettings(store)
    /\ uiPc' = "rpc_set"
    /\ UNCHANGED uiPassword
    /\ UNCHANGED <<popupVars, storageVars, otherVars>>

\* ... and sets the merged record
saveSettings_set ==
    /\ uiPc = "rpc_set"
    /\ store' = saveSettings(store, uiVal, uiVal2)
    /\ uiPc' = "idle"
    /\ uiVal' = Null
    /\ uiVal2' = Null
    /\ UNCHANGED uiPassword
    /\ UNCHANGED <<popupVars, otherVars>>

\* ----------------------------------------------------- popup: export key
\* exportKeyPasswordForm submit: loadWallet reads the wallet ...
exportKeyPasswordForm_submit ==
    /\ popupOpen /\ uiPc = "idle" /\ currentScreen = "exportKeyPasswordScreen"
    /\ \E password \in Passwords : uiPassword' = password
    /\ uiVal' = store.dinari_wallet
    /\ uiPc' = "export_load"
    /\ UNCHANGED uiVal2
    /\ UNCHANGED <<popupVars, storageVars, otherVars>>

\* ... and the key is put on the display screen, or the error shown
exportKeyPasswordForm_loaded ==
    /\ uiPc = "export_load"
    /\ LET r == loadWallet(uiVal, uiPassword)
       IN IF r.ok
          THEN /\ privateKeyDisplay' = r.wallet.privateKey
               /\ currentScreen' = "exportKeyDisplayScreen"
          ELSE UNCHANGED <<privateKeyDisplay, currentScreen>>
    /\ uiPc' = "idle"
    /\ uiVal' = Null
    /\ uiPassword' = ""
    /\ UNCHANGED uiVal2
    /\ UNCHANGED <<popupOpen, currentWallet, pendingTransaction, loginError, tracking, createVars>>
    /\ UNCHANGED <<storageVars, otherVars>>

\* btnDoneExportKey / btnBackToSettingsFromKeyDisplay
btnDoneExportKey_click ==
    /\ popupOpen /\ uiPc = "idle" /\ currentScreen = "exportKeyDisplayScreen"
    /\ privateKeyDisplay' = ""
    /\ currentScreen' = "settingsScreen"
    /\ UNCHANGED <<popupOpen, currentWallet, pendingTransaction, loginError, tracking, createVars>>
    /\ UNCHANGED <<storageVars, uiVars, otherVars>>

\* ------------------------------------------------------------ popup: send
\* sendForm submit, validation passed: getWalletAddress reads the wallet ...
sendForm_submit ==
    /\ popupOpen /\ uiPc = "idle" /\ currentScreen = "sendScreen"
    /\ uiVal' = getWalletAddress(store)
    /\ uiPc' = "send_pending"
    /\ UNCHANGED <<uiPassword, uiVal2>>
    /\ UNCHANGED <<popupVars, storageVars, otherVars>>

\* ... and the pending transaction is stored for the confirmation modal
sendForm_pending ==
    /\ uiPc = "send_pending"
    /\ pendingTransaction' = [from |-> uiVal]
    /\ uiPc' = "idle"
    /\ uiVal' = Null
    /\ UNCHANGED <<uiPassword, uiVal2>>
    /\ UNCHANGED <<popupOpen, currentScreen, currentWallet, privateKeyDisplay,
                   loginError, tracking, createVars>>
    /\ UNCHANGED <<storageVars, otherVars>>

\* btnConfirmSend, password given at the prompt: loadWallet reads the wallet ...
btnConfirmSend_click ==
    /\ popupOpen /\ uiPc = "idle" /\ currentScreen = "sendScreen"
    /\ pendingTransaction # Null
    /\ \E password \in Passwords : uiPassword' = password
    /\ uiVal' = store.dinari_wallet
    /\ uiPc' = "send_load"
    /\ UNCHANGED uiVal2
    /\ UNCHANGED <<popupVars, storageVars, otherVars>>

\* ... the key is decrypted and buildAndSendTransaction asks for the nonce ...
btnConfirmSend_loaded ==
    /\ uiPc = "send_load"
    /\ LET r == loadWallet(uiVal, uiPassword)
       IN IF r.ok
          THEN /\ uiVal' = [privateKey |-> r.wallet.privateKey]
               /\ uiPc' = "send_nonce"
          ELSE /\ uiVal' = Null
               /\ uiPc' = "idle"
    /\ uiPassword' = ""
    /\ UNCHANGED uiVal2
    /\ UNCHANGED <<popupOpen, currentScreen, currentWallet, pendingTransaction,
                   privateKeyDisplay, loginError, tracking, createVars>>
    /\ UNCHANGED <<storageVars, otherVars>>

\* ... the balance query fails, or it returns the nonce: the transaction is
\* built with it, signed (signing may throw), and given to sendTransaction ...
buildAndSendTransaction_sign ==
    /\ uiPc = "send_nonce"
    /\ \E queryOk \in BOOLEAN, signOk \in BOOLEAN, nonce \in Nonces,
          to \in Recipients, amount \in Amounts, tokenType \in TokenTypes, fee \in Fees :
          IF queryOk /\ signOk
          THEN LET balance == [nonce |-> nonce]
                   tx == buildTransaction(pendingTransaction.from, to, amount,
                                          tokenType, fee, balance.nonce)
               IN /\ uiVal' = [privateKey |-> uiVal.privateKey, balance |-> balance]
                  /\ uiVal2' = signTransaction(tx, uiVal.privateKey)
                  /\ uiPc' = "send_tx"
          ELSE /\ uiPc' = "idle"
               /\ uiVal' = Null
               /\ UNCHANGED uiVal2
    /\ UNCHANGED uiPassword
    /\ UNCHANGED <<popupVars, storageVars, otherVars>>

\* ... the node answers tx_send with the hash, or with an error ...
buildAndSendTransaction_send ==
    /\ uiPc = "send_tx"
    /\ \E rpcOk \in BOOLEAN :
          IF rpcOk
          THEN /\ uiPc' = "send_sent"
               /\ UNCHANGED <<uiVal, uiVal2>>
          ELSE /\ uiPc' = "idle"
               /\ uiVal' = Null
               /\ uiVal2' = Null
    /\ UNCHANGED uiPassword
    /\ UNCHANGED <<popupVars, storageVars, otherVars>>

\* ... and showTransactionSuccess clears the pending transaction
btnConfirmSend_done ==
    /\ uiPc = "send_sent"
    /\ pendingTransaction' = Null
    /\ uiPc' = "idle"
    /\ uiVal' = Null
    /\ uiVal2' = Null
    /\ UNCHANGED uiPassword
    /\ UNCHANGED <<popupOpen, currentScreen, currentWallet, privateKeyDisplay,
                   loginError, tracking, createVars>>
    /\ UNCHANGED <<storageVars, otherVars>>

Next ==
    \/ Tick
    \/ handleLockWallet
    \/ checkAutoLock_get
    \/ checkAutoLock_lock
    \/ updateActivity_get
    \/ updateActivity_set
    \/ poll_getSession
    \/ poll_getSettings
    \/ poll_compare
    \/ poll_lock
    \/ poll_locked
    \/ popupOpen_start
    \/ popupOpen_exists
    \/ popupOpen_session
    \/ popupOpen_valid
    \/ initializeWallet_show
    \/ initializeWallet_track
    \/ popupClose
    \/ showScreen_button
    \/ loginForm_submit
    \/ loginForm_verified
    \/ loginForm_loaded
    \/ loginForm_initialize
    \/ importWalletForm_submit
    \/ saveWallet_encrypted
    \/ saveWallet_session
    \/ importWalletForm_initialize
    \/ btnLockWallet_click
    \/ lockWallet_done
    \/ btnClearWallet_click
    \/ btnClearWallet_done
    \/ btnSaveRPC_click
    \/ saveSettings_set
    \/ exportKeyPasswordForm_submit
    \/ exportKeyPasswordForm_loaded
    \/ btnDoneExportKey_click
    \/ sendForm_submit
    \/ sendForm_pending
    \/ btnConfirmSend_click
    \/ btnConfirmSend_loaded
    \/ buildAndSendTransaction_sign
    \/ buildAndSendTransaction_send
    \/ btnConfirmSend_done

Spec == Init /\ [][Next]_vars

\* ------------------------------------------- isSessionValid on its own
\* The stored session and settings and the clock are drawn from the values the
\* wallet can hold around the auto-lock threshold; the popup shows the main
\* screen with activity tracking set up, and the interval callback runs.
FiveMinutes == 5 * 60 * 1000
Ages == {0, 4 * 60 * 1000, FiveMinutes - 1, FiveMinutes, FiveMinutes + 1}
ClockInputs == {FiveMinutes + 2, 2 * FiveMinutes + 3}
SessionInputs(t) ==
    {Absent, BG_LOCKED} \cup {sessionData(u, t - a) : u \in BOOLEAN, a \in Ages}
SettingsInputs == {Absent, [rpc_endpoint |-> CUSTOM_RPC, auto_lock_minutes |-> 5]}
StoredWallet ==
    LET wallet == importWallet("k1")
    IN walletRecord([privateKey |-> wallet.privateKey, publicKey |-> wallet.publicKey,
                     address |-> wallet.address, seedPhrase |-> Null],
                    "pw1", "salt1", "iv1")

InitValid ==
    /\ now \in ClockInputs
    /\ ticks = 0
    /\ \E s \in SessionInputs(now), g \in SettingsInputs :
          store = [dinari_wallet |-> StoredWallet, dinari_session |-> s, dinari_settings |-> g]
    /\ popupOpen = TRUE
    /\ currentScreen = "mainWalletScreen"
    /\ currentWallet = Null
    /\ pendingTransaction = Null
    /\ privateKeyDisplay = ""
    /\ loginError = ""
    /\ tracking = TRUE
    /\ tempPassword = Null /\ seedPhraseWords = << >> /\ verifyIndices = << >>
    /\ NoCalls
    /\ uiPc = "idle" /\ uiPassword = "" /\ uiVal = Null /\ uiVal2 = Null
    /\ touchPc = "idle" /\ touchSession = Null
    /\ timeout = Null /\ activeSince = Null
    /\ pollPc = "idle" /\ pollSession = Null /\ pollSettings = Null
    /\ autoPc = "idle" /\ autoRead = Null

NextValid ==
    \/ poll_getSession
    \/ poll_getSettings
    \/ poll_compare

SpecValid == InitValid /\ [][NextValid]_vars

\* ------------------------------------------------ wallet creation included
\* The popup is on the seed verification screen of the create flow (password
\* chosen, seed phrase generated and shown); the clock stands still.
\* verifySeedForm submit, words correct: the key is derived from the phrase
\* and saveWallet starts encrypting, with the password kept from step 1
verifySeedForm_submit ==
    /\ popupOpen /\ uiPc = "idle" /\ currentScreen = "verifySeedScreen"
    /\ \E mnemonic \in Mnemonics, password \in Passwords :
          /\ LET privateKey == mnemonicToPrivateKey(mnemonic)
                 wallet == importWallet(privateKey)
             IN uiVal' = [privateKey |-> wallet.privateKey,
                          publicKey |-> wallet.publicKey,
                          address |-> wallet.address,
                          seedPhrase |-> mnemonic]
          /\ uiPassword' = password
    /\ uiPc' = "save_encrypt"
    /\ UNCHANGED uiVal2
    /\ UNCHANGED <<popupVars, storageVars, otherVars>>

InitWallet ==
    /\ store = EmptyStore
    /\ now = 1
    /\ ticks = 0
    /\ popupOpen = TRUE
    /\ currentScreen = "verifySeedScreen"
    /\ currentWallet = Null
    /\ pendingTransaction = Null
    /\ privateKeyDisplay = ""
    /\ loginError = ""
    /\ tracking = FALSE
    /\ tempPassword = Null /\ seedPhraseWords = << >> /\ verifyIndices = << >>
    /\ NoCalls
    /\ uiPc = "idle" /\ uiPassword = "" /\ uiVal = Null /\ uiVal2 = Null
    /\ touchPc = "idle" /\ touchSession = Null
    /\ timeout = Null /\ activeSince = Null
    /\ pollPc = "idle" /\ pollSession = Null /\ pollSettings = Null
    /\ autoPc = "idle" /\ autoRead = Null

NextWallet ==
    \/ verifySeedForm_submit
    \/ handleLockWallet
    \/ checkAutoLock_get
    \/ checkAutoLock_lock
    \/ updateActivity_get
    \/ updateActivity_set
    \/ poll_getSession
    \/ poll_getSettings
    \/ poll_compare
    \/ poll_lock
    \/ poll_locked
    \/ popupOpen_start
    \/ popupOpen_exists
    \/ popupOpen_session
    \/ popupOpen_valid
    \/ initializeWallet_show
    \/ initializeWallet_track
    \/ popupClose
    \/ showScreen_button
    \/ loginForm_submit
    \/ loginForm_verified
    \/ loginForm_loaded
    \/ loginForm_initialize
    \/ importWalletForm_submit
    \/ saveWallet_encrypted
    \/ saveWallet_session
    \/ importWalletForm_initialize
    \/ btnLockWallet_click
    \/ lockWallet_done
    \/ btnClearWallet_click
    \/ btnClearWallet_done
    \/ btnSaveRPC_click
    \/ saveSettings_set
    \/ exportKeyPasswordForm_submit
    \/ exportKeyPasswordForm_loaded
    \/ btnDoneExportKey_click
    \/ sendForm_submit
    \/ sendForm_pending
    \/ btnConfirmSend_click
    \/ btnConfirmSend_loaded
    \/ buildAndSendTransaction_sign
    \/ buildAndSendTransaction_send
    \/ btnConfirmSend_done

SpecWallet == InitWallet /\ [][NextWallet]_vars

\* ---------------------------------------------------- decrypt on its own
\* A caller encrypts a plaintext and hands decrypt the produced values or
\* altered ones, with the same or another password.  uiVal holds the call's
\* arguments and what was encrypted, uiVal2 the result.
Plaintexts == {"p1", "p2"}
CiphertextInputs(c) == {c, flipBit(c), MalformedCiphertext}
SaltInputs(salt) == {salt, salt \o "'", MalformedBase64}
IvInputs(iv) == {iv, iv \o "'", MalformedBase64}

\* everything but the caller's locals, while no popup is open
NoPopup ==
    /\ store = EmptyStore
    /\ now = 1
    /\ ticks = 0
    /\ popupOpen = FALSE
    /\ currentScreen = "none"
    /\ currentWallet = Null
    /\ pendingTransaction = Null
    /\ privateKeyDisplay = ""
    /\ loginError = ""
    /\ tracking = FALSE
    /\ tempPassword = Null /\ seedPhraseWords = << >> /\ verifyIndices = << >>
    /\ NoCalls
    /\ touchPc = "idle" /\ touchSession = Null
    /\ timeout = Null /\ activeSince = Null
    /\ pollPc = "idle" /\ pollSession = Null /\ pollSettings = Null
    /\ autoPc = "idle" /\ autoRead = Null

InitDecrypt ==
    /\ NoPopup
    /\ uiPc = "idle"
    /\ uiVal2 = Null
    /\ \E plaintext \in Plaintexts, salt \in RandomSalts, iv \in RandomIVs :
          /\ uiPassword \in Passwords
          /\ LET e == encrypt(plaintext, uiPassword, salt, iv)
             IN \E c \in CiphertextInputs(e.encrypted), s \in SaltInputs(e.salt),
                   i \in IvInputs(e.iv), pw \in Passwords :
                   uiVal = [plaintext |-> plaintext, produced |-> e,
                            encrypted |-> c, salt |-> s, iv |-> i, password |-> pw]

decrypt_call ==
    /\ uiPc = "idle"
    /\ uiVal2' = decrypt(uiVal.encrypted, uiVal.salt, uiVal.iv, uiVal.password)
    /\ uiPc' = "decrypted"
    /\ UNCHANGED <<uiPassword, uiVal>>
    /\ UNCHANGED <<popupVars, storageVars, otherVars>>

NextDecrypt == decrypt_call

SpecDecrypt == InitDecrypt /\ [][NextDecrypt]_vars

\* ---------------------------------------------- verifyPassword on its own
\* The storage holds no wallet, a wallet record as saveWallet wrote it, or
\* one whose ciphertext, salt or iv was altered since; the get may fail.
walletDataOf(privateKey, seedPhrase) ==
    LET wallet == importWallet(privateKey)
    IN [privateKey |-> wallet.privateKey, publicKey |-> wallet.publicKey,
        address |-> wallet.address, seedPhrase |-> seedPhrase]
WalletInputs ==
    {walletDataOf(k, Null) : k \in PrivateKeys}
      \cup {walletDataOf(mnemonicToPrivateKey(m), m) : m \in Mnemonics}
SavedRecords(password) ==
    {walletRecord(d, password, salt, iv) :
        d \in WalletInputs, salt \in RandomSalts, iv \in RandomIVs}
CorruptedRecords(w) ==
    {[w EXCEPT !.encrypted_data = c] : c \in CiphertextInputs(w.encrypted_data) \ {w.encrypted_data}}
      \cup {[w EXCEPT !.salt = x] : x \in SaltInputs(w.salt) \ {w.salt}}
      \cup {[w EXCEPT !.iv = x] : x \in IvInputs(w.iv) \ {w.iv}}
GoodRecords == UNION {SavedRecords(pw) : pw \in Passwords}
RecordInputs == {Absent} \cup GoodRecords \cup UNION {CorruptedRecords(w) : w \in GoodRecords}

InitVerify ==
    /\ store \in {[dinari_wallet |-> w, dinari_session |-> s, dinari_settings |-> DEFAULT_SETTINGS] :
                     w \in RecordInputs, s \in {LOCKED_DEFAULT}}
    /\ now = 1
    /\ ticks = 0
    /\ popupOpen = FALSE
    /\ currentScreen = "none"
    /\ currentWallet = Null
    /\ pendingTransaction = Null
    /\ privateKeyDisplay = ""
    /\ loginError = ""
    /\ tracking = FALSE
    /\ tempPassword = Null /\ seedPhraseWords = << >> /\ verifyIndices = << >>
    /\ NoCalls
    /\ touchPc = "idle" /\ touchSession = Null
    /\ timeout = Null /\ activeSince = Null
    /\ pollPc = "idle" /\ pollSession = Null /\ pollSettings = Null
    /\ autoPc = "idle" /\ autoRead = Null
    /\ uiPc = "idle"
    /\ uiPassword \in Passwords
    /\ uiVal = Null
    /\ uiVal2 = Null

\* verifyPassword(uiPassword): the get throws and the catch returns false, or
\* the record is read and decrypt is tried
verifyPassword_call ==
    /\ uiPc = "idle"
    /\ \E storageOk \in BOOLEAN :
          /\ uiVal' = [storageOk |-> storageOk]
          /\ uiVal2' = [result |-> IF storageOk
                                   THEN verifyPassword(store.dinari_wallet, uiPassword)
                                   ELSE FALSE]
    /\ uiPc' = "verified"
    /\ UNCHANGED uiPassword
    /\ UNCHANGED <<popupVars, storageVars, otherVars>>

NextVerify == verifyPassword_call

SpecVerify == InitVerify /\ [][NextVerify]_vars

\* ------------------------------------------------------------- auto-lock
\* A wallet was imported and the popup closed: the session is unlocked.  The
\* clock runs; the autoLockCheck alarm fires every minute for as long as the
\* extension is installed; the popup may be opened, used for a login, and
\* closed.
InitAutoLock ==
    /\ store = [dinari_wallet |-> StoredWallet,
                dinari_session |-> sessionData(TRUE, 1),
                dinari_settings |-> Absent]
    /\ now = 1
    /\ ticks = 0
    /\ popupOpen = FALSE
    /\ PopupFresh
    /\ autoPc = "idle" /\ autoRead = Null

NextAutoLock ==
    \/ Tick
    \/ handleLockWallet
    \/ checkAutoLock_get
    \/ checkAutoLock_lock
    \/ updateActivity_get
    \/ updateActivity_set
    \/ poll_getSession
    \/ poll_getSettings
    \/ poll_compare
    \/ poll_lock
    \/ poll_locked
    \/ popupOpen_start
    \/ popupOpen_exists
    \/ popupOpen_session
    \/ popupOpen_valid
    \/ initializeWallet_show
    \/ initializeWallet_track
    \/ popupClose
    \/ loginForm_submit
    \/ loginForm_verified
    \/ loginForm_loaded
    \/ loginForm_initialize

SpecAutoLock ==
    /\ InitAutoLock
    /\ [][NextAutoLock]_vars
    /\ WF_vars(checkAutoLock_get)
    /\ WF_vars(checkAutoLock_lock)

\* ------------------------------------------------------- hashTransaction
\* A JavaScript object is its properties in insertion order; tx.from reads a
\* property by name.
objectOf(props) ==
    [n \in {props[i][1] : i \in DOMAIN props} |->
        props[CHOOSE i \in DOMAIN props : props[i][1] = n][2]]

Reverse(s) == [i \in 1..Len(s) |-> s[Len(s) + 1 - i]]

\* transactions as callers may build them: the fee under the name fee, under
\* the name feeDNT (as buildAndSendTransaction does), under both or neither,
\* with or without a field of the sender's own, in either property order
FeeInputs == {0, 1000}
FeeDNTInputs == {1000, 2000}
TxInputs ==
    LET base == {<< <<"from", "Dsender">>, <<"to", to>>, <<"amount", amount>>,
                    <<"tokenType", tokenType>>, <<"nonce", nonce>> >> :
                    to \in Recipients, amount \in Amounts,
                    tokenType \in TokenTypes, nonce \in Nonces}
        withFee == base \cup {b \o << <<"fee", fee>> >> : b \in base, fee \in FeeInputs}
        withFeeDNT == withFee \cup {b \o << <<"feeDNT", feeDNT>> >> :
                                       b \in withFee, feeDNT \in FeeDNTInputs}
        withMemo == withFeeDNT \cup {b \o << <<"memo", "hello">> >> : b \in withFeeDNT}
    IN withMemo \cup {Reverse(b) : b \in withMemo}

InitHash ==
    /\ NoPopup
    /\ uiPc = "idle"
    /\ uiPassword = ""
    /\ uiVal2 = Null
    /\ \E a \in TxInputs, b \in TxInputs : uiVal = [a |-> a, b |-> b]

\* hashTransaction of each of the two transactions
hashTransaction_call ==
    /\ uiPc = "idle"
    /\ uiVal2' = [a |-> hashTransaction(objectOf(uiVal.a)),
                  b |-> hashTransaction(objectOf(uiVal.b))]
    /\ uiPc' = "hashed"
    /\ UNCHANGED <<uiPassword, uiVal>>
    /\ UNCHANGED <<popupVars, storageVars, otherVars>>

\* signTransaction of the first, and hashTransaction of what it returned
signTransaction_call ==
    /\ uiPc = "idle"
    /\ \E privateKey \in PrivateKeys :
          LET signedTx == signTransaction(objectOf(uiVal.a), privateKey)
          IN uiVal2' = [signedTx |-> signedTx, hash |-> hashTransaction(signedTx)]
    /\ uiPc' = "signed"
    /\ UNCHANGED <<uiPassword, uiVal>>
    /\ UNCHANGED <<popupVars, storageVars, otherVars>>

NextHash ==
    \/ hashTransaction_call
    \/ signTransaction_call

SpecHash == InitHash /\ [][NextHash]_vars

\* ------------------------------------------------ importWallet on key text
\* A key as the user types it: a sequence of characters.
KeyLength == 64
HexDigits == {"0", "1", "2", "3", "4", "5", "6", "7", "8", "9",
              "a", "b", "c", "d", "e", "f", "A", "B", "C", "D", "E", "F"}
HexAlphabet == <<"0", "1", "2", "3", "4", "5", "6", "7", "8", "9",
                 "a", "b", "c", "d", "e", "f">>
UpperCaseLetters == <<"A", "B", "C", "D", "E", "F", "G">>
LowerCaseLetters == <<"a", "b", "c", "d", "e", "f", "g">>
WhiteSpace == {" ", "\n"}

\* String.prototype.toLowerCase
toLowerCase(text) ==
    [i \in 1..Len(text) |->
        IF \E j \in DOMAIN UpperCaseLetters : UpperCaseLetters[j] = text[i]
        THEN LowerCaseLetters[CHOOSE j \in DOMAIN UpperCaseLetters :
                                 UpperCaseLetters[j] = text[i]]
        ELSE text[i]]

\* String.prototype.trim
RECURSIVE trimStart(_)
trimStart(text) ==
    IF Len(text) > 0 /\ Head(text) \in WhiteSpace THEN trimStart(Tail(text)) ELSE text
RECURSIVE trimEnd(_)
trimEnd(text) ==
    IF Len(text) > 0 /\ text[Len(text)] \in WhiteSpace
    THEN trimEnd(SubSeq(text, 1, Len(text) - 1))
    ELSE text
trim(text) == trimEnd(trimStart(text))

\* a pattern without its anchors: a run of hex digits anywhere in the text
hexRegexTest_unanchored(hex, length) ==
    \E first \in 1..Len(hex) :
        /\ first + length - 1 <= Len(hex)
        /\ \A i \in first..(first + length - 1) : hex[i] \in HexDigits

\* /^[a-fA-F0-9]{length}$/.test(hex)
hexRegexTest(hex, length) ==
    /\ Len(hex) = length
    /\ \A i \in 1..Len(hex) : hex[i] \in HexDigits

\* DinariUtils.validateHex(hex, length)
validateHexLength(hex, length) == hexRegexTest(hex, length)

\* EC.keyFromPrivate(privateKeyHex, 'hex'): the number the digits spell
keyFromPrivate(privateKeyHex) ==
    LET lower == toLowerCase(privateKeyHex)
    IN [i \in 1..Len(lower) |->
           (CHOOSE d \in DOMAIN HexAlphabet : HexAlphabet[d] = lower[i]) - 1]

\* importWallet(privateKeyHex): the format error is thrown before anything is
\* derived; the key returned is lower-cased
InvalidKeyFormat == "Invalid private key format. Must be 64 hexadecimal characters."
importWallet_hex(privateKeyHex) ==
    IF ~hexRegexTest(privateKeyHex, KeyLength)
    THEN [error |-> InvalidKeyFormat]
    ELSE LET publicKey == <<"pub", keyFromPrivate(privateKeyHex)>>
         IN [privateKey |-> toLowerCase(privateKeyHex),
             publicKey |-> publicKey,
             address |-> publicKeyToAddress(publicKey)]

\* key texts: two characters alternating, of the lengths around KeyLength, and
\* well-formed keys with white space before or after
KeyChars == {"a", "A", "f", "F", "0", "9", "g", " "}
alternating(c1, c2, n) == [i \in 1..n |-> IF i % 2 = 1 THEN c1 ELSE c2]
KeyTexts ==
    {alternating(c1, c2, n) :
        c1 \in KeyChars, c2 \in KeyChars,
        n \in {0, KeyLength - 1, KeyLength, KeyLength + 1}}
    \cup {before \o alternating(c1, c2, KeyLength) \o after :
             c1 \in {"a", "F"}, c2 \in {"A", "9"},
             before \in {<< >>, <<" ">>}, after \in {<< >>, <<" ">>, <<"\n">>}}

InitImport ==
    /\ store = EmptyStore
    /\ now = 1
    /\ ticks = 0
    /\ popupOpen = TRUE
    /\ currentScreen = "importWalletScreen"
    /\ currentWallet = Null
    /\ pendingTransaction = Null
    /\ privateKeyDisplay = ""
    /\ loginError = ""
    /\ tracking = FALSE
    /\ tempPassword = Null /\ seedPhraseWords = << >> /\ verifyIndices = << >>
    /\ NoCalls
    /\ uiPc = "idle" /\ uiPassword = "" /\ uiVal = Null
    /\ uiVal2 \in {[input |-> text] : text \in KeyTexts}
    /\ touchPc = "idle" /\ touchSession = Null
    /\ timeout = Null /\ activeSince = Null
    /\ pollPc = "idle" /\ pollSession = Null /\ pollSettings = Null
    /\ autoPc = "idle" /\ autoRead = Null

\* DinariCrypto.importWallet called with the text as it is
importWallet_call ==
    /\ uiPc = "idle"
    /\ uiVal' = importWallet_hex(uiVal2.input)
    /\ uiPc' = "imported"
    /\ UNCHANGED <<uiPassword, uiVal2>>
    /\ UNCHANGED <<popupVars, storageVars, otherVars>>

\* importWalletForm submit with the text typed into importPrivateKey: the
\* value is trimmed, validateHex(privateKey, 64) rejects the form or
\* importWallet derives the wallet and saveWallet starts
importWalletForm_submitText ==
    /\ popupOpen /\ uiPc = "idle" /\ currentScreen = "importWalletScreen"
    /\ \E password \in Passwords :
          LET privateKey == trim(uiVal2.input)
          IN IF ~validateHexLength(privateKey, KeyLength)
             THEN /\ uiPc' = "import_rejected"
                  /\ UNCHANGED <<uiVal, uiPassword>>
             ELSE LET wallet == importWallet_hex(privateKey)
                  IN IF "error" \in DOMAIN wallet
                     THEN /\ uiPc' = "import_failed"
                          /\ UNCHANGED <<uiVal, uiPassword>>
                     ELSE /\ uiVal' = [privateKey |-> wallet.privateKey,
                                       publicKey |-> wallet.publicKey,
                                       address |-> wallet.address,
                                       seedPhrase |-> Null]
                          /\ uiPassword' = password
                          /\ uiPc' = "save_encrypt"
    /\ UNCHANGED uiVal2
    /\ UNCHANGED <<popupVars, storageVars, otherVars>>

NextImport ==
    \/ importWallet_call
    \/ importWalletForm_submitText
    \/ saveWallet_encrypted

SpecImport == InitImport /\ [][NextImport]_vars

\* ------------------------------------------------------- validateAddress
\* An address is a sequence of characters, a Uint8Array a sequence of bytes.
ADDRESS_VERSION == 30
ALPHABET ==
    <<"1", "2", "3", "4", "5", "6", "7", "8", "9", "A", "B", "C",
      "D", "E", "F", "G", "H", "J", "K", "L", "M", "N", "P", "Q",
      "R", "S", "T", "U", "V", "W", "X", "Y", "Z", "a", "b", "c",
      "d", "e", "f", "g", "h", "i", "j", "k", "m", "n", "o", "p",
      "q", "r", "s", "t", "u", "v", "w", "x", "y", "z">>

\* SHA-256 and RIPEMD-160 on bytes: each a fixed function of its input, here
\* a multiplicative mix of the bytes, seeded per output position
RECURSIVE mix(_, _, _)
mix(data, j, acc) ==
    IF j > Len(data) THEN acc ELSE mix(data, j + 1, (acc * 33 + data[j] + j) % 65521)
sha256Bytes(data) == [i \in 1..32 |-> mix(data, 1, 131 * i + 7) % 256]
ripemd160Bytes(data) == [i \in 1..20 |-> mix(data, 1, 173 * i + 11) % 256]

\* BigInt arithmetic on big-endian digit sequences: one long division of the
\* number by `by`, giving <<quotient, remainder>> ...
RECURSIVE divStep(_, _, _, _)
divStep(digits, from, by, carry) ==
    IF Len(digits) = 0
    THEN << << >>, carry >>
    ELSE LET cur == carry * from + Head(digits)
             rest == divStep(Tail(digits), from, by, cur % by)
         IN << <<cur \div by>> \o rest[1], rest[2] >>

RECURSIVE stripZeros(_)
stripZeros(digits) ==
    IF Len(digits) > 0 /\ Head(digits) = 0 THEN stripZeros(Tail(digits)) ELSE digits

\* ... and the digits of the number in another base (none for zero)
RECURSIVE toBase(_, _, _)
toBase(digits, from, to) ==
    IF Len(stripZeros(digits)) = 0
    THEN << >>
    ELSE LET r == divStep(stripZeros(digits), from, to, 0)
         IN toBase(r[1], from, to) \o <<r[2]>>

RECURSIVE leadingCount(_, _)
leadingCount(s, x) ==
    IF Len(s) > 0 /\ Head(s) = x THEN 1 + leadingCount(Tail(s), x) ELSE 0

base58Encode(bytes) ==
    LET num == toBase(bytes, 256, 58)
        encoded == [i \in 1..Len(num) |-> ALPHABET[num[i] + 1]]
    IN [i \in 1..leadingCount(bytes, 0) |-> ALPHABET[1]] \o encoded

\* base58Decode: throws on a character outside the alphabet; the bytes of
\* num.toString(16) padded to an even length (one zero byte for zero), after
\* one zero byte per leading '1'
base58Decode(str) ==
    IF \E i \in 1..Len(str) : \A d \in DOMAIN ALPHABET : ALPHABET[d] # str[i]
    THEN [ok |-> FALSE, error |-> "Invalid Base58 character"]
    ELSE LET digits == [i \in 1..Len(str) |->
                           (CHOOSE d \in DOMAIN ALPHABET : ALPHABET[d] = str[i]) - 1]
             num == toBase(digits, 58, 256)
             bytes == IF Len(num) = 0 THEN <<0>> ELSE num
         IN [ok |-> TRUE,
             bytes |-> [i \in 1..leadingCount(str, "1") |-> 0] \o bytes]

\* publicKeyToAddress on the bytes of the public key
checksumOf(versionedPayload) ==
    SubSeq(sha256Bytes(sha256Bytes(versionedPayload)), 1, 4)
publicKeyToAddress_bytes(publicKeyBytes) ==
    LET ripemd160Hash == ripemd160Bytes(sha256Bytes(publicKeyBytes))
        versionedPayload == <<ADDRESS_VERSION>> \o ripemd160Hash
    IN base58Encode(versionedPayload \o checksumOf(versionedPayload))

\* validateAddress that leaves the version byte unchecked
validateAddress_anyVersion(address) ==
    IF Len(address) = 0 \/ address[1] # "D" THEN FALSE
    ELSE LET decoded == base58Decode(address)
         IN IF ~decoded.ok THEN FALSE
            ELSE IF Len(decoded.bytes) # 25 THEN FALSE
            ELSE SubSeq(decoded.bytes, 22, 25) = checksumOf(SubSeq(decoded.bytes, 1, 21))

\* validateAddress: whatever is thrown inside is caught and answered false
validateAddress(address) ==
    IF Len(address) = 0 \/ address[1] # "D" THEN FALSE
    ELSE LET decoded == base58Decode(address)
         IN IF ~decoded.ok THEN FALSE
            ELSE IF Len(decoded.bytes) # 25 THEN FALSE
            ELSE IF decoded.bytes[1] # ADDRESS_VERSION THEN FALSE
            ELSE SubSeq(decoded.bytes, 22, 25) = checksumOf(SubSeq(decoded.bytes, 1, 21))

\* compressed public keys, and the texts handed to validateAddress: addresses
\* as generated, with a character outside the alphabet, of 24 or 26 bytes
\* (24 bytes after a first byte 135 also start with D),
\* with another version byte (and its own checksum), with one checksum byte
\* off, and the empty text
PublicKeyInputs ==
    {<<prefix>> \o [i \in 1..32 |-> (i * k) % 256] : prefix \in {2, 3}, k \in {1, 7, 200}}
payloadOf(publicKeyBytes, version) ==
    <<version>> \o ripemd160Bytes(sha256Bytes(publicKeyBytes))
AddressInputs ==
    {[kind |-> "generated", address |-> publicKeyToAddress_bytes(pk)] : pk \in PublicKeyInputs}
    \cup {[kind |-> "character",
           address |-> [publicKeyToAddress_bytes(pk) EXCEPT ![at] = c]] :
             pk \in PublicKeyInputs, c \in {"0", "O", "I", "l", " "}, at \in {2, 34}}
    \cup {[kind |-> "length",
           address |-> base58Encode(SubSeq(payloadOf(pk, ADDRESS_VERSION)
                                             \o checksumOf(payloadOf(pk, ADDRESS_VERSION)),
                                           1, 24))] : pk \in PublicKeyInputs}
    \cup {[kind |-> "length",
           address |-> base58Encode(payloadOf(pk, ADDRESS_VERSION)
                                      \o checksumOf(payloadOf(pk, ADDRESS_VERSION))
                                      \o <<0>>)] : pk \in PublicKeyInputs}
    \cup {[kind |-> "length",
           address |-> base58Encode(<<135>> \o ripemd160Bytes(sha256Bytes(pk))
                                      \o <<1, 2, 3>>)] : pk \in PublicKeyInputs}
    \cup {[kind |-> "version",
           address |-> base58Encode(payloadOf(pk, v) \o checksumOf(payloadOf(pk, v)))] :
             pk \in PublicKeyInputs, v \in {0, 29, 31}}
    \cup {[kind |-> "checksum",
           address |-> base58Encode(
               payloadOf(pk, ADDRESS_VERSION)
                 \o [checksumOf(payloadOf(pk, ADDRESS_VERSION)) EXCEPT
                        ![at] = (@ + 1) % 256])] :
             pk \in PublicKeyInputs, at \in 1..4}
    \cup {[kind |-> "empty", address |-> << >>]}

InitAddress ==
    /\ NoPopup
    /\ uiPc = "idle"
    /\ uiPassword = ""
    /\ uiVal2 = Null
    /\ uiVal \in AddressInputs

validateAddress_call ==
    /\ uiPc = "idle"
    /\ uiVal2' = [result |-> validateAddress(uiVal.address)]
    /\ uiPc' = "validated"
    /\ UNCHANGED <<uiPassword, uiVal>>
    /\ UNCHANGED <<popupVars, storageVars, otherVars>>

NextAddress == validateAddress_call

SpecAddress == InitAddress /\ [][NextAddress]_vars

\* ------------------------------------------------------ debounced activity
\* The popup shows the main screen, tracking is set up, and the user, logged
\* in at time 1, has been idle until two debounce delays before the session
\* expires.  Events arrive; the clock moves in steps of half the delay, never
\* past a timer that is due and never across a storage call.
DebounceWait == 1000
ActivitySteps == 8
EventGaps == {500}

InitActivity ==
    /\ now = 1 + FiveMinutes - 2 * DebounceWait
    /\ ticks = 0
    /\ store = [dinari_wallet |-> StoredWallet, dinari_session |-> sessionData(TRUE, 1),
                dinari_settings |-> Absent]
    /\ popupOpen = TRUE
    /\ currentScreen = "mainWalletScreen"
    /\ currentWallet = Null
    /\ pendingTransaction = Null
    /\ privateKeyDisplay = ""
    /\ loginError = ""
    /\ tracking = TRUE
    /\ tempPassword = Null /\ seedPhraseWords = << >> /\ verifyIndices = << >>
    /\ NoCalls
    /\ uiPc = "idle" /\ uiPassword = "" /\ uiVal = Null /\ uiVal2 = Null
    /\ touchPc = "idle" /\ touchSession = Null
    /\ timeout = Null /\ activeSince = Null
    /\ pollPc = "idle" /\ pollSession = Null /\ pollSettings = Null
    /\ autoPc = "idle" /\ autoRead = Null

\* a click, keypress, mousemove or scroll: executedFunction clears the timer
\* and sets a new one (a timer already due runs first)
activityEvent ==
    /\ popupOpen /\ tracking
    /\ timeout # Null => now < timeout.at
    /\ timeout' = [at |-> now + DebounceWait]
    /\ activeSince' = IF timeout = Null THEN [t |-> now] ELSE activeSince
    /\ UNCHANGED <<touchPc, touchSession>>
    /\ UNCHANGED <<storageVars, clockVars, popupVars, uiVars, pollVars, autoVars, rpcVars>>

\* the timer is due: later() calls the function, and updateActivity reads the
\* session
debounce_later ==
    /\ popupOpen /\ tracking
    /\ timeout # Null /\ now >= timeout.at
    /\ touchPc = "idle"
    /\ timeout' = Null
    /\ activeSince' = Null
    /\ touchSession' = unlockedOnly(getSession(store))
    /\ touchPc' = "read"
    /\ UNCHANGED <<storageVars, clockVars, popupVars, uiVars, pollVars, autoVars, rpcVars>>

timePasses ==
    /\ ticks < ActivitySteps
    /\ touchPc = "idle" /\ autoPc = "idle"
    /\ \E d \in EventGaps :
          /\ timeout # Null => now + d <= timeout.at
          /\ now' = now + d
    /\ ticks' = ticks + 1
    /\ UNCHANGED <<store, popupVars, uiVars, touchVars, pollVars, autoVars, rpcVars>>

NextActivity ==
    \/ activityEvent
    \/ debounce_later
    \/ updateActivity_set
    \/ timePasses
    \/ checkAutoLock_get
    \/ checkAutoLock_lock

SpecActivity == InitActivity /\ [][NextActivity]_vars

\* ------------------------------------- checkAutoLock beside isSessionValid
\* The same stored sessions, settings and clock as for isSessionValid on its
\* own, none of them locked by the background yet; the alarm's check and the
\* popup's interval callback both run.
InitAgree ==
    /\ InitValid
    /\ store.dinari_session # BG_LOCKED

NextAgree ==
    \/ poll_getSession
    \/ poll_getSettings
    \/ poll_compare
    \/ checkAutoLock_get
    \/ checkAutoLock_lock

SpecAgree == InitAgree /\ [][NextAgree]_vars

\* ------------------------------------------ getSettings and saveSettings
\* A wallet is stored and unlocked, no settings record yet.  getSettings and
\* saveSettings are called with any of the partial settings; the read inside
\* getSettings succeeds, or it fails and the catch returns the defaults.
AutoLockInputs == {1, 15, 30}
PartialSettings ==
    LET endpoints == RpcInputs \cup {DEFAULT_RPC}
    IN {[rpc_endpoint |-> e] : e \in endpoints}
       \cup {[auto_lock_minutes |-> m] : m \in AutoLockInputs}
       \cup {[rpc_endpoint |-> e, auto_lock_minutes |-> m] :
                e \in endpoints, m \in AutoLockInputs}

InitSettings ==
    /\ NoPopup
    /\ uiPc = "idle"
    /\ uiPassword = ""
    /\ uiVal = Null
    /\ uiVal2 = Null

\* NoPopup has an empty store; the wallet is imported first
importDone ==
    /\ uiPc = "idle"
    /\ store = EmptyStore
    /\ store' = [dinari_wallet |-> StoredWallet, dinari_session |-> sessionData(TRUE, now),
                 dinari_settings |-> Absent]
    /\ UNCHANGED <<uiVars, clockVars, popupVars, otherVars>>

getSettings_call ==
    /\ uiPc \in {"idle", "got"}
    /\ store # EmptyStore
    /\ \E readOk \in BOOLEAN :
          uiVal' = [readOk |-> readOk,
                    result |-> IF readOk THEN getSettings(store) ELSE DEFAULT_SETTINGS]
    /\ uiPc' = "got"
    /\ UNCHANGED <<uiPassword, uiVal2>>
    /\ UNCHANGED <<popupVars, storageVars, otherVars>>

\* saveSettings(partial): its getSettings ...
saveSettings_get ==
    /\ uiPc \in {"idle", "got"}
    /\ store # EmptyStore
    /\ \E partial \in PartialSettings, readOk \in BOOLEAN :
          /\ uiVal' = IF readOk THEN getSettings(store) ELSE DEFAULT_SETTINGS
          /\ uiVal2' = partial
    /\ uiPc' = "rpc_set"
    /\ UNCHANGED uiPassword
    /\ UNCHANGED <<popupVars, storageVars, otherVars>>

NextSettings ==
    \/ importDone
    \/ getSettings_call
    \/ saveSettings_get
    \/ saveSettings_set

SpecSettings == InitSettings /\ [][NextSettings]_vars

\* ------------------------------------------------------ create wallet flow
\* The popup shows the welcome screen of a fresh installation.  Step 1 keeps
\* the password in sessionStorage, step 2 shows the phrase, btnVerifySeed draws
\* three positions, step 3 compares the three words and saves the wallet.
MnemonicWordLists ==
    {<<"abandon", "ability", "able", "about", "above", "absent",
       "absorb", "abstract", "absurd", "abuse", "access", "accident">>,
     <<"bubble", "ability", "bubble", "about", "bacon", "absent",
       "bubble", "abstract", "badge", "abuse", "bubble", "accident">>}
WordInputs(words) == {words[i] : i \in DOMAIN words} \cup {"zebra"}
IndexTriples ==
    {<<a, b, c>> : a \in 0..11, b \in 0..11, c \in 0..11} \cap
    {t \in Seq(0..11) : Len(t) = 3 /\ t[1] < t[2] /\ t[2] < t[3]}

RECURSIVE join(_)
join(words) ==
    IF Len(words) = 0 THEN ""
    ELSE IF Len(words) = 1 THEN words[1]
    ELSE words[1] \o " " \o join(Tail(words))

InitCreate ==
    /\ store = EmptyStore
    /\ now = 1
    /\ ticks = 0
    /\ popupOpen = TRUE
    /\ currentScreen = "welcomeScreen"
    /\ currentWallet = Null
    /\ pendingTransaction = Null
    /\ privateKeyDisplay = ""
    /\ loginError = ""
    /\ tracking = FALSE
    /\ tempPassword = Null /\ seedPhraseWords = << >> /\ verifyIndices = << >>
    /\ NoCalls
    /\ uiPc = "idle" /\ uiPassword = "" /\ uiVal = Null /\ uiVal2 = Null
    /\ touchPc = "idle" /\ touchSession = Null
    /\ timeout = Null /\ activeSince = Null
    /\ pollPc = "idle" /\ pollSession = Null /\ pollSettings = Null
    /\ autoPc = "idle" /\ autoRead = Null

\* btnCreateWallet, and btnBackToWelcome on the password screen
btnCreateWallet_click ==
    /\ popupOpen /\ uiPc = "idle" /\ currentScreen = "welcomeScreen"
    /\ currentScreen' = "createPasswordScreen"
    /\ UNCHANGED <<popupOpen, currentWallet, pendingTransaction, privateKeyDisplay,
                   loginError, tracking, createVars>>
    /\ UNCHANGED <<storageVars, uiVars, otherVars>>

btnBackToWelcome_click ==
    /\ popupOpen /\ uiPc = "idle" /\ currentScreen = "createPasswordScreen"
    /\ currentScreen' = "welcomeScreen"
    /\ UNCHANGED <<popupOpen, currentWallet, pendingTransaction, privateKeyDisplay,
                   loginError, tracking, createVars>>
    /\ UNCHANGED <<storageVars, uiVars, otherVars>>

\* createPasswordForm submit with an accepted password: generateMnemonic
\* throws and nothing is kept, or the words and the password are kept
createPasswordForm_submit ==
    /\ popupOpen /\ uiPc = "idle" /\ currentScreen = "createPasswordScreen"
    /\ \E password \in Passwords, words \in MnemonicWordLists, generated \in BOOLEAN :
          IF generated
          THEN /\ seedPhraseWords' = words
               /\ tempPassword' = [value |-> password]
               /\ currentScreen' = "seedPhraseScreen"
               /\ UNCHANGED verifyIndices
          ELSE UNCHANGED <<currentScreen, createVars>>
    /\ UNCHANGED <<popupOpen, currentWallet, pendingTransaction, privateKeyDisplay,
                   loginError, tracking>>
    /\ UNCHANGED <<storageVars, uiVars, otherVars>>

\* btnVerifySeed: three distinct positions, sorted
btnVerifySeed_click ==
    /\ popupOpen /\ uiPc = "idle" /\ currentScreen = "seedPhraseScreen"
    /\ \E indices \in IndexTriples : verifyIndices' = indices
    /\ currentScreen' = "verifySeedScreen"
    /\ UNCHANGED <<tempPassword, seedPhraseWords>>
    /\ UNCHANGED <<popupOpen, currentWallet, pendingTransaction, privateKeyDisplay,
                   loginError, tracking>>
    /\ UNCHANGED <<storageVars, uiVars, otherVars>>

\* verifySeedForm submit with the three words typed: a wrong word shows the
\* error and returns; else the key is derived, the password read from
\* sessionStorage and saveWallet starts encrypting ...
verifySeedForm_submitWords ==
    /\ popupOpen /\ uiPc = "idle" /\ currentScreen = "verifySeedScreen"
    /\ \E word1 \in WordInputs(seedPhraseWords), word2 \in WordInputs(seedPhraseWords),
          word3 \in WordInputs(seedPhraseWords) :
          LET correct == /\ word1 = seedPhraseWords[verifyIndices[1] + 1]
                         /\ word2 = seedPhraseWords[verifyIndices[2] + 1]
                         /\ word3 = seedPhraseWords[verifyIndices[3] + 1]
              mnemonic == join(seedPhraseWords)
              wallet == importWallet(mnemonicToPrivateKey(mnemonic))
          IN IF ~correct
             THEN UNCHANGED uiVars
             ELSE /\ uiVal' = [privateKey |-> wallet.privateKey,
                               publicKey |-> wallet.publicKey,
                               address |-> wallet.address,
                               seedPhrase |-> mnemonic]
                  /\ uiVal2' = [words |-> <<word1, word2, word3>>]
                  /\ uiPassword' = tempPassword.value
                  /\ uiPc' = "save_encrypt"
    /\ UNCHANGED <<popupVars, storageVars, otherVars>>

\* ... and once saveWallet has returned: the clean-up, then initializeWallet
\* reads the address
verifySeedForm_cleanup ==
    /\ uiPc = "save_done"
    /\ tempPassword' = Null
    /\ seedPhraseWords' = << >>
    /\ verifyIndices' = << >>
    /\ uiVal' = getWalletAddress(store)
    /\ uiVal2' = Null
    /\ uiPc' = "init_addr"
    /\ UNCHANGED uiPassword
    /\ UNCHANGED <<popupOpen, currentScreen, currentWallet, pendingTransaction,
                   privateKeyDisplay, loginError, tracking>>
    /\ UNCHANGED <<storageVars, otherVars>>

NextCreate ==
    \/ btnCreateWallet_click
    \/ btnBackToWelcome_click
    \/ createPasswordForm_submit
    \/ btnVerifySeed_click
    \/ verifySeedForm_submitWords
    \/ saveWallet_encrypted
    \/ saveWallet_session
    \/ verifySeedForm_cleanup
    \/ initializeWallet_show
    \/ initializeWallet_track
    \/ popupClose

SpecCreate == InitCreate /\ [][NextCreate]_vars

\* ------------------------------------------- overlapping sends of a sender
\* buildAndSendTransaction is an async function of the rpc library: between
\* its two awaits other callers run.  Two callers send from the one address.
\* The node is the other side of request(): wallet_balance answers the
\* account's current nonce, tx_send takes a signed transaction, and the
\* ledger later applies the transactions it was given, in order, accepting
\* the one whose nonce is the account's and advancing the nonce.
MaxBroadcasts == 3
SendAmounts == {100000000, 250000000}
Sender == importWallet("k1")

InitNonce ==
    /\ NoPopup
    /\ uiPc = "idle"
    /\ uiPassword = ""
    /\ uiVal = Null
    /\ uiVal2 = Null

\* the call: wallet_balance is requested for the sender
buildAndSendTransaction_call(c) ==
    /\ calls[c].pc = "idle"
    /\ Len(broadcasts) < MaxBroadcasts
    /\ \E to \in Recipients, amount \in SendAmounts, tokenType \in TokenTypes, fee \in Fees :
          calls' = [calls EXCEPT ![c] =
                       [pc |-> "balance",
                        args |-> [from |-> Sender.address, to |-> to, amount |-> amount,
                                  tokenType |-> tokenType, feeDNT |-> fee,
                                  privateKey |-> Sender.privateKey],
                        signedTx |-> Null, result |-> Null]]
    /\ UNCHANGED <<broadcasts, ledger>>
    /\ UNCHANGED <<storageVars, popupVars, uiVars, clockVars, touchVars, pollVars, autoVars>>

\* the balance query fails, or it answers with the account's nonce: the
\* transaction is built with it, signed (signing may throw) and given to
\* tx_send
buildAndSendTransaction_signed(c) ==
    /\ calls[c].pc = "balance"
    /\ \E queryOk \in BOOLEAN, signOk \in BOOLEAN :
          IF queryOk /\ signOk
          THEN LET balance == [nonce |-> ledger.nonce]
                   a == calls[c].args
                   tx == buildTransaction(a.from, a.to, a.amount, a.tokenType,
                                          a.feeDNT, balance.nonce)
                   signedTx == signTransaction(tx, a.privateKey)
               IN /\ calls' = [calls EXCEPT ![c].pc = "send", ![c].signedTx = signedTx]
                  /\ broadcasts' = Append(broadcasts, [call |-> c, tx |-> signedTx])
          ELSE /\ calls' = [calls EXCEPT ![c].pc = "idle",
                                         ![c].result = [error |-> "Failed to send transaction: "]]
               /\ UNCHANGED broadcasts
    /\ UNCHANGED ledger
    /\ UNCHANGED <<storageVars, popupVars, uiVars, clockVars, touchVars, pollVars, autoVars>>

\* the node answers tx_send with the hash, or with an error
buildAndSendTransaction_sent(c) ==
    /\ calls[c].pc = "send"
    /\ \E rpcOk \in BOOLEAN :
          calls' = [calls EXCEPT
                       ![c].pc = "idle",
                       ![c].result = IF rpcOk
                                     THEN [txHash |-> hashTransaction(calls[c].signedTx)]
                                     ELSE [error |-> "Failed to send transaction: "]]
    /\ UNCHANGED <<broadcasts, ledger>>
    /\ UNCHANGED <<storageVars, popupVars, uiVars, clockVars, touchVars, pollVars, autoVars>>

\* the ledger applies the next transaction it was given
ledgerApply ==
    /\ ledger.next <= Len(broadcasts)
    /\ LET tx == broadcasts[ledger.next].tx
       IN ledger' = [nonce |-> IF tx.nonce = ledger.nonce THEN ledger.nonce + 1
                               ELSE ledger.nonce,
                     next |-> ledger.next + 1]
    /\ UNCHANGED <<calls, broadcasts>>
    /\ UNCHANGED <<storageVars, popupVars, uiVars, clockVars, touchVars, pollVars, autoVars>>

NextNonce ==
    \/ \E c \in CallIds : buildAndSendTransaction_call(c)
    \/ \E c \in CallIds : buildAndSendTransaction_signed(c)
    \/ \E c \in CallIds : buildAndSendTransaction_sent(c)
    \/ ledgerApply

SpecNonce == InitNonce /\ [][NextNonce]_vars

\* ---------------------------------------------------- validateTransaction
\* rpc.js validateTransaction: the recipient, the two amounts, then the
\* balance, in the branch of the token type; a token type that is neither
\* 'DNT' nor 'AFC' takes no branch
validateTransaction(address, amount, fee, balance, tokenType) ==
    IF ~validateAddress(address)
    THEN [valid |-> FALSE, error |-> "Invalid recipient address format"]
    ELSE IF amount <= 0
    THEN [valid |-> FALSE, error |-> "Amount must be greater than 0"]
    ELSE IF fee <= 0
    THEN [valid |-> FALSE, error |-> "Fee must be greater than 0"]
    ELSE IF tokenType = "DNT" /\ amount + fee > balance.dnt
    THEN [valid |-> FALSE, error |-> "Insufficient DNT balance (including fee)"]
    ELSE IF tokenType = "AFC" /\ amount > balance.afc
    THEN [valid |-> FALSE, error |-> "Insufficient AFC balance"]
    ELSE IF tokenType = "AFC" /\ fee > balance.dnt
    THEN [valid |-> FALSE, error |-> "Insufficient DNT balance for fee"]
    ELSE [valid |-> TRUE, error |-> Null]

RecipientInputs ==
    LET pk == <<2>> \o [i \in 1..32 |-> i]
    IN {publicKeyToAddress_bytes(pk),
        base58Encode(payloadOf(pk, 0) \o checksumOf(payloadOf(pk, 0)))}
AmountInputs == {-1, 0, 1, 5}
FeeAmountInputs == {0, 1, 3}
BalanceInputs == {[dnt |-> d, afc |-> a] : d \in {0, 2, 6}, a \in {0, 5}}
TokenTypeInputs == {"DNT", "AFC", "dnt", "USDT"}

InitValidateTx ==
    /\ NoPopup
    /\ uiPc = "idle"
    /\ uiPassword = ""
    /\ uiVal2 = Null
    /\ uiVal \in [address : RecipientInputs, amount : AmountInputs, fee : FeeAmountInputs,
                  balance : BalanceInputs, tokenType : TokenTypeInputs]

validateTransaction_call ==
    /\ uiPc = "idle"
    /\ uiVal2' = validateTransaction(uiVal.address, uiVal.amount, uiVal.fee,
                                     uiVal.balance, uiVal.tokenType)
    /\ uiPc' = "checked"
    /\ UNCHANGED <<uiPassword, uiVal>>
    /\ UNCHANGED <<popupVars, storageVars, otherVars>>

NextValidateTx == validateTransaction_call

SpecValidateTx == InitValidateTx /\ [][NextValidateTx]_vars

\* ------------------------------------------------------------------ properties
storedSession == store.dinari_session
storedWallet == store.dinari_wallet
storedSettings == store.dinari_settings

\* Locked: unlocked=false or the record absent
Locked(st) == st.dinari_session = Absent \/ ~st.dinari_session.unlocked

\* the validity the specification defines, on the stored records
ValidBySpec(st, t) ==
    /\ st.dinari_session # Absent
    /\ st.dinari_session.unlocked
    /\ t - st.dinari_session.last_activity <
          (IF st.dinari_settings = Absent THEN 5 ELSE st.dinari_settings.auto_lock_minutes) * 60000

\* the running popup handler took a step and the popup was not closed
UiStep(from, to) == uiPc = from /\ uiPc' = to /\ popupOpen'

\* C1: the stored session goes from Locked to unlocked=true only by the
\* setSession(true) of a login whose verifyPassword returned true or of a
\* saveWallet.
C1_UnlockOnlyByLoginOrSave ==
    [][(Locked(store) /\ ~Locked(store'))
         => (UiStep("login_load", "login_session") \/ UiStep("save_session", "save_done"))]_vars

\* C2: isSessionValid returns true exactly when the stored session has
\* unlocked=true and now - last_activity < auto_lock_minutes * 60000.  The
\* interval callback goes on to lockWallet() exactly when it returned false.
C2_IsSessionValidExact ==
    [][(pollPc \in {"session", "settings"} /\ pollPc' \in {"idle", "lock"})
         => ((pollPc' = "idle") <=> ValidBySpec(store, now))]_vars

C2_Witness ==
    /\ pollPc = "lock"
    /\ storedSession # Absent
    /\ storedSession.unlocked
    /\ now - storedSession.last_activity = 5 * 60 * 1000

\* C3: the stored session record is never {unlocked: true, last_activity: 0};
\* it is absent, the background's locked record, or a record stamped with a
\* time the clock has shown.
C3_NoTornSession ==
    \/ storedSession = Absent
    \/ storedSession = BG_LOCKED
    \/ /\ storedSession.last_activity >= 1
       /\ storedSession.last_activity <= now

\* a background lock landed between the read and the write of a touch
C3_Witness ==
    /\ touchPc = "read"
    /\ touchSession.unlocked
    /\ storedSession = BG_LOCKED

\* the password is not the one the wallet record was encrypted under
WrongPassword(walletData, password) ==
    walletData = Absent \/ walletData.encrypted_data.key[1] # password

\* C4: a login with a wrong password changes nothing: the storage records,
\* currentWallet and the screen stay as they are, the error is shown, and the
\* handler returns.
C4_FailedLoginChangesNothing ==
    [][(UiStep("idle", "login_verify") => UNCHANGED <<store, currentWallet, currentScreen>>)
       /\ ((uiPc = "login_verify" /\ uiPc' # uiPc /\ popupOpen'
              /\ WrongPassword(uiVal, uiPassword))
            => /\ uiPc' = "idle"
               /\ loginError' = "Incorrect password"
               /\ UNCHANGED <<store, currentWallet, currentScreen>>)]_vars

C4_Witness ==
    /\ currentScreen = "loginScreen"
    /\ uiPc = "idle"
    /\ loginError = "Incorrect password"
    /\ storedWallet # Absent
    /\ Locked(store)
    /\ currentWallet = Null

\* C5: updateActivity on an Unlocked session changes only last_activity, to the
\* current time; on a Locked or absent session it writes nothing.
C5_TouchFrame ==
    [][UiStep(uiPc, uiPc) /\ touchPc = "read" /\ touchPc' = "idle"
         => IF Locked(store)
            THEN store' = store
            ELSE store' = [store EXCEPT !.dinari_session = [unlocked |-> TRUE, last_activity |-> now]]]_vars

\* C6: when saveWallet completes, the wallet record holds the address, the
\* public key and the encrypted secret of the wallet, and the session is
\* unlocked and stamped with the current time, so it is valid; when encrypt
\* fails nothing is written.
C6_SaveWalletUnlocks ==
    [][(UiStep("save_session", "save_done")
          => /\ \E k \in PrivateKeys, pw \in Passwords :
                   /\ storedWallet'.address = publicKeyToAddress(getPublicKeyFromPrivate(k))
                   /\ storedWallet'.public_key = getPublicKeyFromPrivate(k)
                   /\ storedWallet'.encrypted_data.pt.privateKey = k
                   /\ storedWallet'.encrypted_data.key[1] = pw
             /\ storedSession' = [unlocked |-> TRUE, last_activity |-> now']
             /\ ValidBySpec(store', now'))
       /\ (UiStep("save_encrypt", "idle") => store' = store)]_vars

C6_Witness ==
    /\ uiPc = "save_done"
    /\ storedWallet # Absent
    /\ storedSession = [unlocked |-> TRUE, last_activity |-> now]

\* C7: clearWallet removes the wallet record and the session record in one
\* step and leaves the settings record alone; afterwards every reader sees no
\* wallet and the locked default session.
C7_ClearWalletRemovesBoth ==
    [][UiStep("idle", "clear_done")
         => /\ storedWallet' = Absent
            /\ storedSession' = Absent
            /\ storedSettings' = storedSettings
            /\ ~walletExists(store')
            /\ getWalletAddress(store') = Null
            /\ getWalletPublicKey(store') = Null
            /\ getSession(store') = [unlocked |-> FALSE, last_activity |-> 0]
            /\ \A pw \in Passwords : ~verifyPassword(storedWallet', pw)]_vars

C7_Witness ==
    /\ uiPc = "clear_done"
    /\ storedWallet = Absent
    /\ storedSession = Absent
    /\ storedSettings # Absent

\* C8: once the wipe has removed the records and the concurrent touch and lock
\* operations have finished, the wallet record and the session record are both
\* present or both absent.
C8_WalletAndSessionTogether ==
    (uiPc = "clear_done" /\ touchPc = "idle" /\ autoPc = "idle" /\ pollPc # "lock")
      => ((storedWallet = Absent) <=> (storedSession = Absent))

\* C9: when no login, signing or export is in progress, no popup variable holds
\* the decrypted private key.
C9_NoKeyHeldBetweenOperations ==
    (popupOpen /\ uiPc = "idle" /\ currentScreen # "exportKeyDisplayScreen")
      => (currentWallet = Null /\ privateKeyDisplay = "")

\* C10: the key is decrypted for signing or for export, and a transaction is
\* signed and handed to the node, only while the stored session is valid.
C10_SessionGuardBeforeKeyUse ==
    [][(\/ UiStep("send_load", "send_nonce")
        \/ UiStep("send_nonce", "send_tx")
        \/ (UiStep("export_load", "idle") /\ privateKeyDisplay' # ""))
         => ValidBySpec(store, now)]_vars

WalletKeys == PrivateKeys \cup {mnemonicToPrivateKey(m) : m \in Mnemonics}
Secrets == WalletKeys \cup Mnemonics \cup Passwords

\* C12: no stored record holds a private key, a seed phrase or a password in
\* the clear.  The wallet record has exactly the fields encrypted_data, salt,
\* iv, address and public_key, and the secret is inside the ciphertext only;
\* the session record is {unlocked, last_activity} and the settings record is
\* {rpc_endpoint, auto_lock_minutes}.
C12_NoCleartextSecretStored ==
    /\ storedWallet # Absent =>
          /\ DOMAIN storedWallet = {"encrypted_data", "salt", "iv", "address", "public_key"}
          /\ DOMAIN storedWallet.encrypted_data = {"key", "iv", "pt"}
          /\ storedWallet.encrypted_data.pt.privateKey \in WalletKeys
          /\ storedWallet.salt \in RandomSalts \ Secrets
          /\ storedWallet.iv \in RandomIVs \ Secrets
          /\ storedWallet.public_key = getPublicKeyFromPrivate(storedWallet.encrypted_data.pt.privateKey)
          /\ storedWallet.address = publicKeyToAddress(storedWallet.public_key)
    /\ storedSession # Absent =>
          /\ DOMAIN storedSession = {"unlocked", "last_activity"}
          /\ storedSession.unlocked \in BOOLEAN
          /\ storedSession.last_activity \in 0..now
    /\ storedSettings # Absent =>
          /\ DOMAIN storedSettings = {"rpc_endpoint", "auto_lock_minutes"}
          /\ storedSettings.rpc_endpoint \in ({DEFAULT_RPC} \cup RpcInputs) \ Secrets
          /\ storedSettings.auto_lock_minutes = 5

\* a created wallet, seed phrase inside the ciphertext, all three records stored
C12_Witness ==
    /\ storedWallet # Absent
    /\ \E m \in Mnemonics :
          storedWallet.encrypted_data.pt.privateKey = mnemonicToPrivateKey(m)
    /\ storedSession # Absent
    /\ storedSettings # Absent

\* the arguments are the values encrypt produced and the password it was given
Untampered ==
    /\ uiVal.encrypted = uiVal.produced.encrypted
    /\ uiVal.salt = uiVal.produced.salt
    /\ uiVal.iv = uiVal.produced.iv
    /\ uiVal.password = uiPassword

\* C13: decrypt returns the plaintext only for the produced ciphertext, salt
\* and iv with the password used to encrypt; for another password, an altered
\* ciphertext, salt or iv, or input that is not Base64, it fails, every time
\* with the same error value.
C13_DecryptFailsUniformly ==
    [][uiPc = "idle" /\ uiPc' = "decrypted"
         => IF Untampered
            THEN uiVal2' = [ok |-> TRUE, pt |-> uiVal.plaintext]
            ELSE uiVal2' = [ok |-> FALSE,
                            error |-> "Decryption failed - incorrect password or corrupted data"]]_vars

\* a flipped ciphertext was decrypted with the right password
C13_Witness ==
    /\ uiPc = "decrypted"
    /\ uiVal.encrypted = flipBit(uiVal.produced.encrypted)
    /\ uiVal.salt = uiVal.produced.salt
    /\ uiVal.iv = uiVal.produced.iv
    /\ uiVal.password = uiPassword
    /\ ~uiVal2.ok

\* a handler's loadWallet has resolved
LoadStep ==
    /\ uiPc \in {"login_load", "export_load", "send_load"}
    /\ uiPc' # uiPc
    /\ popupOpen'

\* C14: when decryption fails, what loadWallet fails with is exactly the
\* error decrypt raised, and no wallet data comes with it.
C14_LoadWalletPropagatesVerbatim ==
    [][(LoadStep /\ WrongPassword(uiVal, uiPassword))
         => loadWallet(uiVal, uiPassword) =
               [ok |-> FALSE,
                error |-> "Decryption failed - incorrect password or corrupted data"]]_vars

\* C15: verifyPassword returns a boolean and nothing else; true exactly when
\* the get succeeded and the stored record is one saveWallet wrote under this
\* password, unaltered; the storage is left as it was.
C15_VerifyPasswordTotal ==
    [][uiPc = "idle" /\ uiPc' = "verified"
         => /\ DOMAIN uiVal2' = {"result"}
            /\ uiVal2'.result \in BOOLEAN
            /\ uiVal2'.result <=> (uiVal'.storageOk /\ storedWallet \in SavedRecords(uiPassword))
            /\ store' = store]_vars

\* false for a record whose ciphertext was altered, right password
C15_Witness ==
    /\ uiPc = "verified"
    /\ uiVal.storageOk
    /\ storedWallet \in UNION {CorruptedRecords(w) : w \in SavedRecords(uiPassword)}
    /\ DOMAIN storedWallet.encrypted_data = {"altered"}
    /\ ~uiVal2.result

ExpiredUnlocked ==
    /\ ~Locked(store)
    /\ now - storedSession.last_activity >=
          (IF storedSettings = Absent THEN 5 ELSE storedSettings.auto_lock_minutes) * 60000

\* C17: with the alarm firing fairly, an unlocked session that has expired
\* does not stay so: the auto-lock writes unlocked=false unless the session is
\* stamped anew first; and a step other than an activity update takes the
\* session from Locked to unlocked only as the login's setSession(true).
C17_AutoLockLiveness ==
    /\ ExpiredUnlocked ~> ~ExpiredUnlocked
    /\ [][(Locked(store) /\ ~Locked(store') /\ ~(touchPc = "read" /\ touchPc' = "idle"))
            => UiStep("login_load", "login_session")]_vars

\* the background alarm locked an expired session: no popup was open
C17_Witness ==
    /\ storedSession = BG_LOCKED
    /\ ~popupOpen
    /\ autoPc = "idle"
    /\ now - 1 >= 5 * 60000

\* C18: buildAndSendTransaction asks the ledger first; the transaction handed
\* to sendTransaction carries exactly the nonce the query returned and a
\* signature over the transaction with that nonce; nothing is handed over when
\* the query or the signing fails; and no nonce is kept from one call to the
\* next.
C18_NonceVerbatim ==
    [][/\ (uiPc' = "send_tx" /\ uiPc # "send_tx") => uiPc = "send_nonce"
       /\ (uiPc' = "send_sent" /\ uiPc # "send_sent") => uiPc = "send_tx"
       /\ uiPc = "send_nonce" => (uiVal2 = Null /\ DOMAIN uiVal = {"privateKey"})
       /\ UiStep("send_nonce", "idle") => (uiVal2' = Null /\ uiVal' = Null)
       /\ UiStep("send_nonce", "send_tx")
            => /\ uiVal2'.nonce = uiVal'.balance.nonce
               /\ uiVal2'.from = pendingTransaction.from
               /\ uiVal2'.publicKey = getPublicKeyFromPrivate(uiVal.privateKey)
               /\ uiVal2'.signature =
                     <<"sig",
                       <<"sha256", << <<"from", uiVal2'.from>>, <<"to", uiVal2'.to>>,
                                      <<"amount", uiVal2'.amount>>,
                                      <<"tokenType", uiVal2'.tokenType>>,
                                      <<"fee", uiVal2'.feeDNT>>,
                                      <<"nonce", uiVal'.balance.nonce>> >> >>,
                       uiVal.privateKey>>
       /\ UiStep("send_tx", "send_sent") => UNCHANGED uiVal2]_vars

\* a transaction with the ledger's nonce 3 was accepted by the node
C18_Witness ==
    /\ uiPc = "send_sent"
    /\ uiVal.balance.nonce = 3
    /\ uiVal2.nonce = 3

\* C19: hashTransaction depends only on the six signable fields from, to,
\* amount, tokenType, fee, nonce: two transactions that agree on these six hash
\* identically, whatever their property order and whatever other fields they
\* carry; hashing the signed transaction gives the hash of the unsigned one;
\* and signTransaction leaves every field of the transaction as it was.
SignableFields == {"from", "to", "amount", "tokenType", "fee", "nonce"}
SameSignableFields(x, y) ==
    \A n \in SignableFields :
        /\ n \in DOMAIN x <=> n \in DOMAIN y
        /\ n \in DOMAIN x => x[n] = y[n]
C19_HashOfSignableFieldsOnly ==
    /\ uiPc = "hashed"
         => (SameSignableFields(objectOf(uiVal.a), objectOf(uiVal.b))
               => uiVal2.a = uiVal2.b)
    /\ uiPc = "signed"
         => LET tx == objectOf(uiVal.a)
            IN /\ uiVal2.hash = hashTransaction(tx)
               /\ \A n \in DOMAIN tx : uiVal2.signedTx[n] = tx[n]

\* C20: importWallet accepts a key only if it is exactly 64 hexadecimal
\* characters of either case; every other text (one character short or long,
\* a character that is no hex digit, the empty text, white space around the
\* key) gets the invalid-key-format error and nothing else, nothing derived,
\* and no wallet is saved for a text the form rejects; an accepted key is
\* returned lower-cased, and the same key in another letter case gives the same
\* wallet.
WellFormedKey(text) ==
    /\ Len(text) = 64
    /\ \A i \in 1..Len(text) :
          toLowerCase(text)[i] \in {HexAlphabet[d] : d \in DOMAIN HexAlphabet}
C21_ValidateAddressTotal ==
    uiPc = "validated"
      => /\ uiVal2.result \in BOOLEAN
         /\ uiVal2.result = (uiVal.kind = "generated")
         /\ uiVal.kind = "generated" => uiVal.address[1] = "D"

\* an address with version byte 31 and a checksum of its own, which also
\* starts with D, was refused, and a generated one accepted
C21_Witness ==
    /\ uiPc = "validated"
    /\ uiVal.kind = "version"
    /\ uiVal.address[1] = "D"
    /\ ~uiVal2.result

\* C22: user activity keeps the session alive, also when the events keep
\* arriving less than the debounce delay apart: the background check never
\* locks the session of a user whose events have been arriving for longer than
\* the debounce delay without a gap that long; the write of last_activity has
\* followed them by then.
C22_ActiveUserStaysUnlocked ==
    [][(~Locked(store) /\ Locked(store'))
          => ~(activeSince # Null /\ now - activeSince.t > DebounceWait)]_vars

\* C23: checkAutoLock locks an unlocked stored session at time t exactly when
\* isSessionValid, reading the same store at t, returns false; with no
\* settings record both take 5 minutes.
C23_AutoLockAgreesWithValidity ==
    [][(autoPc = "read" /\ autoPc' = "idle"
          /\ storedSession # Absent /\ storedSession.unlocked)
         => (Locked(store')
               <=> ~isSessionValid(sessionAsRead(getSession(store)),
                                   autoLockMinutesOnly(getSettings(store)), now))]_vars

\* the background locked an expired session with no settings record stored,
\* and the popup's check found the session invalid as well
C23_Witness ==
    /\ storedSession = BG_LOCKED
    /\ storedSettings = Absent
    /\ pollPc = "lock"
    /\ autoPc = "idle"

\* C24: getSettings returns the stored settings, and the defaults when there
\* is no record or the read fails; saveSettings(partial) sets the fields given
\* and leaves every other field at its stored (or, with no record, default)
\* value, and leaves the wallet and session records alone.
SettingsFields == {"rpc_endpoint", "auto_lock_minutes"}
C24_SettingsDefaultAndMerge ==
    [][/\ (uiPc' = "got" /\ uiVal' # uiVal)
            => uiVal'.result = (IF storedSettings = Absent \/ ~uiVal'.readOk
                                THEN DEFAULT_SETTINGS ELSE storedSettings)
       /\ (uiPc = "rpc_set" /\ uiPc' = "idle")
            => /\ DOMAIN storedSettings' = SettingsFields
               /\ \A k \in SettingsFields :
                     storedSettings'[k] =
                        (IF k \in DOMAIN uiVal2 THEN uiVal2[k]
                         ELSE IF storedSettings = Absent THEN DEFAULT_SETTINGS[k]
                         ELSE storedSettings[k])
               /\ storedWallet' = storedWallet
               /\ storedSession' = storedSession]_vars

\* C25: whenever checkAutoLock writes unlocked=false over an unlocked session,
\* that session is at least auto_lock_minutes * 60000 old at the moment of the
\* write; a login or a touch that completed after checkAutoLock's read is not
\* overwritten.
C25_LockOverwritesOnlyExpired ==
    [][(autoPc = "read" /\ autoPc' = "idle" /\ storedSession' = BG_LOCKED
          /\ ~Locked(store)
          /\ autoLockDue(autoRead.session,
                         IF autoRead.settings # Absent THEN autoRead.settings
                         ELSE [auto_lock_minutes |-> 5], now))
         => ExpiredUnlocked]_vars

\* C26: whenever the stored session is Locked and the popup shows the login
\* screen with no handler running, the popup holds no decrypted key material:
\* currentWallet is null and the privateKeyDisplay element is empty, whichever
\* path locked the wallet and whichever screen was shown then.
C26_NoKeyMaterialAfterLock ==
    (popupOpen /\ currentScreen = "loginScreen" /\ uiPc = "idle" /\ pollPc = "idle"
       /\ Locked(store))
      => (currentWallet = Null /\ privateKeyDisplay = "")

\* C28: the password kept in sessionStorage under tempPassword is removed on
\* every exit from the create flow: when saveWallet has succeeded, when
\* saveWallet has failed, and when the seed screens are left; and saveWallet
\* is started only after the three words typed matched the seed words at the
\* three distinct positions drawn.
C28_TempPasswordRemoved ==
    [][/\ (uiPc = "save_encrypt" /\ uiPc' = "idle") => tempPassword' = Null
       /\ (uiPc = "save_done" /\ uiPc' # "save_done") => tempPassword' = Null
       /\ currentScreen' \notin {"seedPhraseScreen", "verifySeedScreen"}
            => tempPassword' = Null
       /\ (uiPc = "idle" /\ uiPc' = "save_encrypt")
            => /\ Cardinality({verifyIndices[i] : i \in 1..3}) = 3
               /\ \A i \in 1..3 :
                     uiVal2'.words[i] = seedPhraseWords[verifyIndices[i] + 1]]_vars

\* C27: no two transactions handed to the node for the same sender carry the
\* same nonce, also when the second call asks for the nonce before the
\* ledger has applied the first call's transaction.
C27_DistinctNoncesPerSender ==
    \A i \in DOMAIN broadcasts : \A j \in DOMAIN broadcasts :
        (i # j /\ broadcasts[i].tx.from = broadcasts[j].tx.from)
            => broadcasts[i].tx.nonce # broadcasts[j].tx.nonce

\* C29: whenever validateTransaction answers valid, the recipient is a valid
\* address, amount and fee are positive, the fee is covered by the DNT
\* balance, and the amount is covered by the balance of the token sent
\* (together with the fee for DNT), whatever the token type.
C29_ValidMeansCovered ==
    (uiPc = "checked" /\ uiVal2.valid)
        => /\ validateAddress(uiVal.address)
           /\ uiVal.amount > 0
           /\ uiVal.fee > 0
           /\ uiVal.fee <= uiVal.balance.dnt
           /\ uiVal.tokenType = "DNT" => uiVal.amount + uiVal.fee <= uiVal.balance.dnt
           /\ uiVal.tokenType = "AFC" => uiVal.amount <= uiVal.balance.afc

\* C30: the fee hashed is the transaction's own fee.  Two transactions that
\* both define fee and differ in nothing but feeDNT have the same hash, and
\* two transactions that differ in nothing but fee (another value, 0 against
\* a non-zero fee, 0 against no fee field) have different hashes.
SameExceptField(x, y, field) ==
    /\ DOMAIN x \ {field} = DOMAIN y \ {field}
    /\ \A n \in DOMAIN x \ {field} : x[n] = y[n]
OwnFee(x) == IF "fee" \in DOMAIN x THEN [value |-> x["fee"]] ELSE Absent
C30_OwnFeeIsHashed ==
    uiPc = "hashed"
        => LET a == objectOf(uiVal.a)
               b == objectOf(uiVal.b)
           IN /\ ("fee" \in DOMAIN a /\ "fee" \in DOMAIN b
                    /\ SameExceptField(a, b, "feeDNT"))
                   => uiVal2.a = uiVal2.b
              /\ (SameExceptField(a, b, "fee") /\ OwnFee(a) # OwnFee(b))
                   => uiVal2.a # uiVal2.b
====
